---- MODULE Spec2Model ----
(***************************************************************************)
(* Notification scheduling and deduplication engine of GTFO                *)
(* (convex/sunsets.ts, convex/devices.ts, convex/crons.ts).                *)
(*                                                                         *)
(* Time is counted in minutes since 00:00 UTC of day 0 (the code counts    *)
(* milliseconds; every duration it uses is a whole number of minutes).     *)
(* An IANA timezone is modelled by its name and a fixed UTC offset.        *)
(* A calendar date string 'YYYY-MM-DD' is modelled by its day number.      *)
(* An ISO instant string is modelled by the instant it denotes.            *)
(*                                                                         *)
(* checkMorningSunsets and sendDueReminders are Convex actions: they are   *)
(* not transactions.  Each await (a query, a mutation, the prediction      *)
(* fetch, the push) is a suspension point; the model has one step per      *)
(* await, made of the awaited call and the synchronous code that follows   *)
(* it up to the next await.  The clock, the clients and the other job may  *)
(* take steps between any two of them.                                     *)
(***************************************************************************)
EXTENDS Integers, Sequences, FiniteSets, TLC

(***************************************************************************)
(* Bounds of the model                                                     *)
(***************************************************************************)
MaxDevices == 2
MaxDeviceOps == 2
MaxNotifications == 3
MaxReminders == 2
MaxWindowNotifications == 8   \* notifications in the table in DedupSpec
MaxCalls == 2          \* applications of a pure function in one behaviour of PureSpec
PureMaxDays == 100     \* consecutive days the pure functions are applied on

(***************************************************************************)
(* Program constants                                                       *)
(***************************************************************************)
MinutesPerHour == 60
MinutesPerDay == 1440
HourBeforeMinutes == 60
TenMinBeforeMinutes == 10
WindowFirstHour == 11
WindowLastHour == 16
RecentWindow == 5

\* sunsets.ts:340-345
QUALITY_THRESHOLD ==
    [q \in {"Fair", "Good", "Great", "Excellent"} |->
        CASE q = "Fair" -> 21
          [] q = "Good" -> 41
          [] q = "Great" -> 61
          [] q = "Excellent" -> 81]

(***************************************************************************)
(* Inputs of the environment, drawn from small sets                        *)
(***************************************************************************)
Day1 == MinutesPerDay
Day2 == 2 * MinutesPerDay

\* The instants at which a step of the system may run.
Instants ==
    { Day1 + 12 * 60,          \* 12:00Z  = 02:00 at UTC+14, 00:00 at UTC-12
      Day1 + 21 * 60,          \* 21:00Z  = 11:00 at UTC+14, 09:00 at UTC-12
      Day1 + 22 * 60,          \* 22:00Z  = 12:00 at UTC+14, 10:00 at UTC-12
      Day1 + 23 * 60 }         \* 23:00Z  = 13:00 at UTC+14, 11:00 at UTC-12

StartTime == Day1 + 12 * 60

\* The timezone names Intl.DateTimeFormat accepts, with their UTC offsets.
TzOffset ==
    [tz \in {"Etc/GMT+12", "Etc/GMT+8", "UTC", "Etc/GMT-12", "Pacific/Tongatapu",
             "Pacific/Kiritimati"} |->
        CASE tz = "Etc/GMT+12" -> -(12 * 60)
          [] tz = "Etc/GMT+8" -> -(8 * 60)
          [] tz = "UTC" -> 0
          [] tz = "Etc/GMT-12" -> 12 * 60
          [] tz = "Pacific/Tongatapu" -> 13 * 60
          [] tz = "Pacific/Kiritimati" -> 14 * 60]

\* Timezone names a client may send.
Timezones == {"Etc/GMT+12", "Pacific/Kiritimati", "Invalid/Zone", ""}

TokenNames == << "ExponentPushToken[A]", "ExponentPushToken[B]", "ExponentPushToken[C]" >>
Tokens == { TokenNames[i] : i \in 1 .. MaxDevices }
DeviceIds == 1 .. MaxDevices

\* Coordinates in thousandths of a degree, <<latitude, longitude>>.
Home == << 37775, -122419 >>
Away == << 38333, -123048 >>

\* Arguments a client may pass to register: <<location, timezone>>.
RegisterArgs == { << Home, tz >> : tz \in Timezones }

\* Arguments a client may pass to updateLocation: <<location, timezone>>,
\* the timezone a set: {} when the argument is absent.
UpdateLocationArgs == { << Away, {} >>, << Away, {"Etc/GMT+12"} >> }

\* Arguments a client may pass to updatePreferences (absent fields are left out).
PreferenceArgs ==
    { [notifyMorning |-> FALSE],
      [notifyHourBefore |-> FALSE, notifyTenMinBefore |-> TRUE],
      [notifyTenMinBefore |-> TRUE],
      [minQuality |-> "Fair"],
      [minQuality |-> "Great"] }

\* What the prediction API may answer: quality_text as normalizeQualityText
\* returns it with quality (0-1) times 100, and the sunset instant.
Predictions ==
    { [quality |-> "Fair", qualityPercent |-> 40],
      [quality |-> "Good", qualityPercent |-> 41] }
SunsetTimes == { Day1 + 23 * 60 }

\* Inputs of the pure functions: the instants of their calls (09:00Z and
\* 11:00Z of each day: 23:00 and 01:00 at UTC+14), latitudes, timezones,
\* percents and levels.
PureInstants ==
    { Day1 + k * MinutesPerDay + m : k \in 0 .. (PureMaxDays - 1), m \in {9 * 60, 11 * 60} }
PureLatitudes == { 37780, 21310, -33870 }
PureTimezones == Timezones \cup {"UTC"}
Percents == 0 .. 100
\* Wall-clock times and timezones localTimeToUTC is applied to
ClockHours == 0 .. 23
ClockMinutes == {0, 30, 59}
ClockTimezones == DOMAIN TzOffset
Levels == {"Fair", "Good", "Great", "Excellent"}

(***************************************************************************)
(* State                                                                   *)
(***************************************************************************)
VARIABLES
    now,               \* the wall clock (Date.now())
    devices,           \* table devices: _id -> document
    nextDeviceId,      \* next _id of table devices
    deviceOps,         \* number of device mutations run so far (bounded)
    notifications,     \* table notifications, in creation order
    pendingReminders,  \* table pendingReminders: set of documents
    nextReminderId,    \* next _id of table pendingReminders
    scan,              \* the checkMorningSunsets invocation
    sweep,             \* the sendDueReminders invocation
    pushes,            \* log of the calls of the push transport
    deleteCalls,       \* log of the deleteReminder calls (reminder _ids)
    isDemoMode,        \* whether SUNSETHUE_API_KEY is unset in the deployment
    otherSweep,        \* a second sendDueReminders invocation (OverlapSpec only)
    otherScan,         \* a second checkMorningSunsets invocation (ScanOverlapSpec only)
    lastError,         \* what the most recent mutation of devices.ts threw, if anything
    calls              \* log of the applications of the pure functions (PureSpec only)

vars == << now, devices, nextDeviceId, deviceOps, notifications, pendingReminders,
           nextReminderId, scan, sweep, pushes, deleteCalls, isDemoMode,
           otherSweep, otherScan, lastError, calls >>

\* The deployment's configuration does not change while it runs; a step of the
\* jobs and clients leaves the second invocations and the call log alone.
EnvFrame == UNCHANGED << isDemoMode, otherSweep, otherScan, lastError, calls >>

Null == [null |-> TRUE]
IsNull(x) == "null" \in DOMAIN x

(***************************************************************************)
(* Pure helpers                                                            *)
(***************************************************************************)

\* devices.ts:5  Math.round(coord * 100) / 100, on thousandths of a degree
fuzzLocation(coord) == ((coord + 5) \div 10) * 10

\* Whether Intl.DateTimeFormat accepts the timeZone.
IsValidTimeZone(timezone) == timezone \in DOMAIN TzOffset

\* The instant t shown in the timezone, in minutes since day 0 00:00 local.
LocalMinutes(t, timezone) == t + TzOffset[timezone]

\* Variant of getLocalHour: an unusable timezone is read as UTC.
getLocalHour_UtcFallback(timezone, t) ==
    IF timezone = "" \/ ~IsValidTimeZone(timezone)
    THEN { (t % MinutesPerDay) \div MinutesPerHour }
    ELSE { (LocalMinutes(t, timezone) % MinutesPerDay) \div MinutesPerHour }

\* sunsets.ts:347-360; null is the empty set, an hour h is {h}.
getLocalHour(timezone, t) ==
    IF timezone = "" \/ ~IsValidTimeZone(timezone)
    THEN {}
    ELSE { (LocalMinutes(t, timezone) % MinutesPerDay) \div MinutesPerHour }

\* sunsets.ts:42-56: the calendar day of t in the timezone, UTC on failure.
formatDateForTimezone(t, timezone) ==
    IF timezone = "" \/ ~IsValidTimeZone(timezone)
    THEN t \div MinutesPerDay
    ELSE LocalMinutes(t, timezone) \div MinutesPerDay

\* sunsets.ts:788  new Date(todayStr + "T00:00:00Z").getTime()
StartOfDayUTC(dateStr) == dateStr * MinutesPerDay

\* Variant of InMorningWindow: the window opens one hour early.
InMorningWindow_FromTen(localHour) ==
    \E h \in localHour : h >= WindowFirstHour - 1 /\ h <= WindowLastHour

\* sunsets.ts:380
InMorningWindow(localHour) ==
    \E h \in localHour : h >= WindowFirstHour /\ h <= WindowLastHour

\* Variant of MeetsThreshold: the percent must exceed the threshold.
MeetsThreshold_Strict(qualityPercent, minQuality) ==
    qualityPercent > QUALITY_THRESHOLD[minQuality]

\* sunsets.ts:400-401, 488-489
MeetsThreshold(qualityPercent, minQuality) ==
    qualityPercent >= QUALITY_THRESHOLD[minQuality]

\* The subsequence of s of the elements in keep
RECURSIVE SelectSeqBy(_, _)
SelectSeqBy(s, keep) ==
    IF s = << >> THEN << >>
    ELSE IF Head(s) \in keep
         THEN << Head(s) >> \o SelectSeqBy(Tail(s), keep)
         ELSE SelectSeqBy(Tail(s), keep)

\* .order("desc").take(n): the last n elements of s, newest first
TakeDesc(s, n) ==
    [i \in 1 .. (IF Len(s) < n THEN Len(s) ELSE n) |-> s[Len(s) + 1 - i]]

\* db.query("notifications").withIndex("by_device", eq(deviceId))
NotificationsOf(deviceId) ==
    SelectSeqBy(notifications,
                {m \in {notifications[i] : i \in 1 .. Len(notifications)} :
                    m.deviceId = deviceId})

\* Variant of hasMorningNotificationToday: every record of the device is inspected.
hasMorningNotificationToday_AllRecords(deviceId, timezone, t) ==
    LET todayStart == StartOfDayUTC(formatDateForTimezone(t, timezone))
        allNotifications == NotificationsOf(deviceId)
    IN  \E i \in 1 .. Len(allNotifications) :
            /\ allNotifications[i].type = "morning"
            /\ allNotifications[i].sentAt >= todayStart

\* sunsets.ts:773-805
hasMorningNotificationToday(deviceId, timezone, t) ==
    LET todayStart == StartOfDayUTC(formatDateForTimezone(t, timezone))
        recentNotifications == TakeDesc(NotificationsOf(deviceId), RecentWindow)
    IN  \E i \in 1 .. Len(recentNotifications) :
            /\ recentNotifications[i].type = "morning"
            /\ recentNotifications[i].sentAt >= todayStart

\* sunsets.ts:58-102: the instant of a local wall-clock time of the date.
\* Without a usable timezone the string carries no zone and is later read by
\* new Date() in the server's zone, which is UTC.
localTimeToUTC(dateStr, hour, minute, timezone) ==
    LET naiveUtc == dateStr * MinutesPerDay + hour * MinutesPerHour + minute
        guessMinutes == LocalMinutes(naiveUtc, timezone) % MinutesPerDay
        targetMinutes == hour * MinutesPerHour + minute
        rawDiff == guessMinutes - targetMinutes
        diffMinutes == IF rawDiff > 12 * 60 THEN rawDiff - 24 * 60
                       ELSE IF rawDiff < -(12 * 60) THEN rawDiff + 24 * 60
                       ELSE rawDiff
    IN  IF timezone = "" \/ ~IsValidTimeZone(timezone)
        THEN naiveUtc
        ELSE naiveUtc - diffMinutes

\* sunsets.ts:108  new Date(today.getFullYear(), 0, 0): 00:00 of 31 December,
\* in the server's zone (UTC).  Day1 of the model is 13 January.
YearStart == Day1 - 13 * MinutesPerDay

\* sunsets.ts:107-109
DayOfYear(t) == (t - YearStart) \div MinutesPerDay

\* sunsets.ts:130-132  Math.round(17 * 60 + 30 + Math.sin((dayOfYear - 80) * 2 * Math.PI / 365) * 90),
\* tabulated for dayOfYear = 1 .. 366
SunsetMinutesOfDay ==
    << 962, 962, 963, 963, 963, 964, 964, 965, 965, 966, 967, 967, 968, 968,
       969, 970, 970, 971, 972, 973, 974, 974, 975, 976, 977, 978, 979, 980,
       981, 982, 983, 984, 985, 986, 987, 988, 989, 990, 992, 993, 994, 995,
       996, 998, 999, 1000, 1002, 1003, 1004, 1006, 1007, 1008, 1010, 1011,
       1012, 1014, 1015, 1017, 1018, 1020, 1021, 1023, 1024, 1026, 1027, 1029,
       1030, 1032, 1033, 1035, 1036, 1038, 1039, 1041, 1042, 1044, 1045, 1047,
       1048, 1050, 1052, 1053, 1055, 1056, 1058, 1059, 1061, 1062, 1064, 1065,
       1067, 1068, 1070, 1071, 1073, 1074, 1076, 1077, 1079, 1080, 1082, 1083,
       1085, 1086, 1088, 1089, 1090, 1092, 1093, 1094, 1096, 1097, 1098, 1100,
       1101, 1102, 1104, 1105, 1106, 1107, 1108, 1110, 1111, 1112, 1113, 1114,
       1115, 1116, 1117, 1118, 1119, 1120, 1121, 1122, 1123, 1124, 1125, 1126,
       1126, 1127, 1128, 1129, 1130, 1130, 1131, 1132, 1132, 1133, 1133, 1134,
       1135, 1135, 1136, 1136, 1137, 1137, 1137, 1138, 1138, 1138, 1139, 1139,
       1139, 1139, 1139, 1140, 1140, 1140, 1140, 1140, 1140, 1140, 1140, 1140,
       1140, 1140, 1140, 1139, 1139, 1139, 1139, 1138, 1138, 1138, 1137, 1137,
       1137, 1136, 1136, 1135, 1135, 1134, 1134, 1133, 1133, 1132, 1131, 1131,
       1130, 1129, 1128, 1128, 1127, 1126, 1125, 1124, 1123, 1123, 1122, 1121,
       1120, 1119, 1118, 1117, 1116, 1115, 1114, 1112, 1111, 1110, 1109, 1108,
       1107, 1105, 1104, 1103, 1102, 1100, 1099, 1098, 1096, 1095, 1094, 1092,
       1091, 1090, 1088, 1087, 1085, 1084, 1083, 1081, 1080, 1078, 1077, 1075,
       1074, 1072, 1071, 1069, 1068, 1066, 1065, 1063, 1062, 1060, 1059, 1057,
       1055, 1054, 1052, 1051, 1049, 1048, 1046, 1045, 1043, 1041, 1040, 1038,
       1037, 1035, 1034, 1032, 1031, 1029, 1028, 1026, 1025, 1023, 1022, 1020,
       1019, 1017, 1016, 1015, 1013, 1012, 1010, 1009, 1008, 1006, 1005, 1004,
       1002, 1001, 1000, 998, 997, 996, 995, 993, 992, 991, 990, 989, 988, 986,
       985, 984, 983, 982, 981, 980, 979, 978, 977, 977, 976, 975, 974, 973,
       972, 972, 971, 970, 969, 969, 968, 967, 967, 966, 966, 965, 965, 964,
       964, 963, 963, 963, 962, 962, 962, 961, 961, 961, 961, 960, 960, 960,
       960, 960, 960, 960, 960, 960, 960, 960, 960, 961, 961, 961, 961, 961,
       962, 962 >>

\* sunsets.ts:110  Math.floor(Math.abs(latitude)), latitude in thousandths of a degree
FloorAbsDegrees(latitude) ==
    (IF latitude < 0 THEN -latitude ELSE latitude) \div 1000

\* sunsets.ts:110
MockSeed(dayOfYear, latitude) == (dayOfYear * 7 + FloorAbsDegrees(latitude)) % 100

\* sunsets.ts:115-127: the label of the seed
MockQuality(seed) ==
    IF seed < 25 THEN "Poor"
    ELSE IF seed < 50 THEN "Fair"
    ELSE IF seed < 80 THEN "Good"
    ELSE "Great"

\* sunsets.ts:115-127: the percent of the seed
MockQualityPercent(seed) ==
    IF seed < 25 THEN 5 + (seed % 12)
    ELSE IF seed < 50 THEN 20 + (seed % 30)
    ELSE IF seed < 80 THEN 52 + (seed % 23)
    ELSE 76 + (seed % 24)

\* sunsets.ts:137-141  makeTimeString
makeTimeString(dateStr, minutes, timezone) ==
    localTimeToUTC(dateStr, (minutes \div MinutesPerHour) % 24,
                   minutes % MinutesPerHour, timezone)

\* sunsets.ts:104-166, called at instant t.  sunsetAzimuth is in tenths of a degree.
generateMockSunset(latitude, timezone, t) ==
    LET dayOfYear == DayOfYear(t)
        seed == MockSeed(dayOfYear, latitude)
        sunsetMinutes == SunsetMinutesOfDay[dayOfYear]
        dateStr == formatDateForTimezone(t, timezone)
        sunsetTime == makeTimeString(dateStr, sunsetMinutes, timezone)
    IN  [ quality |-> MockQuality(seed),
          qualityPercent |-> MockQualityPercent(seed),
          sunsetTime |-> sunsetTime,
          validAt |-> sunsetTime,
          isDemo |-> TRUE,
          cloudCover |-> 30 + (seed % 40),
          sunsetAzimuth |-> 2400 + ((dayOfYear * 2) % 600),
          goldenHourStart |-> makeTimeString(dateStr, sunsetMinutes - 60, timezone),
          goldenHourEnd |-> sunsetTime,
          blueHourStart |-> sunsetTime,
          blueHourEnd |-> makeTimeString(dateStr, sunsetMinutes + 30, timezone) ]

(***************************************************************************)
(* devices.ts                                                              *)
(***************************************************************************)

\* .withIndex("by_push_token", eq(pushToken)): the matching _ids
ByPushToken(pushToken) ==
    {id \in DOMAIN devices : devices[id].pushToken = pushToken}

\* .first()
FirstByPushToken(pushToken) ==
    CHOOSE id \in ByPushToken(pushToken) :
        \A other \in ByPushToken(pushToken) : id <= other

\* devices.ts:30-39, 58-67: the document of a new device
NewDevice(pushToken, loc, timezone) ==
    [ _id |-> nextDeviceId,
      pushToken |-> pushToken,
      latitude |-> fuzzLocation(loc[1]),
      longitude |-> fuzzLocation(loc[2]),
      timezone |-> timezone,
      lastLocationUpdate |-> now,
      notifyMorning |-> TRUE,
      notifyHourBefore |-> TRUE,
      notifyTenMinBefore |-> FALSE,   \* the field is absent: read as falsy
      minQuality |-> "Good" ]

\* db.insert("devices", doc)
InsertDevice(doc) ==
    /\ nextDeviceId \in DeviceIds
    /\ devices' = devices @@ (nextDeviceId :> doc)
    /\ nextDeviceId' = nextDeviceId + 1

\* db.patch(id, updates): each field of updates replaces the stored one
Patch(doc, updates) ==
    [f \in DOMAIN doc |-> IF f \in DOMAIN updates THEN updates[f] ELSE doc[f]]

DeviceOpFrame ==
    UNCHANGED << now, notifications, pendingReminders, nextReminderId, scan, sweep,
                 pushes, deleteCalls, isDemoMode, otherSweep, otherScan, calls >>

\* A mutation returns; devices.ts:96 throws
NoError == "none"
DeviceNotFound == "Device not found"

\* Variant of register: a new document is inserted whether or not the token is known.
register_AlwaysInserts(pushToken, loc, timezone) ==
    /\ deviceOps < MaxDeviceOps
    /\ deviceOps' = deviceOps + 1
    /\ InsertDevice(NewDevice(pushToken, loc, timezone))
    /\ lastError' = NoError
    /\ DeviceOpFrame

\* Variant of register: a known device is patched with the defaults too.
register_ResetsPreferences(pushToken, loc, timezone) ==
    /\ deviceOps < MaxDeviceOps
    /\ deviceOps' = deviceOps + 1
    /\ IF ByPushToken(pushToken) # {}
       THEN /\ devices' = [devices EXCEPT ![FirstByPushToken(pushToken)] =
                   Patch(@, [ latitude |-> fuzzLocation(loc[1]),
                              longitude |-> fuzzLocation(loc[2]),
                              timezone |-> timezone,
                              lastLocationUpdate |-> now,
                              notifyMorning |-> TRUE,
                              notifyHourBefore |-> TRUE,
                              minQuality |-> "Good" ])]
            /\ UNCHANGED nextDeviceId
       ELSE InsertDevice(NewDevice(pushToken, loc, timezone))
    /\ lastError' = NoError
    /\ DeviceOpFrame

\* devices.ts:7-41
register(pushToken, loc, timezone) ==
    /\ deviceOps < MaxDeviceOps
    /\ deviceOps' = deviceOps + 1
    /\ IF ByPushToken(pushToken) # {}
       THEN /\ devices' = [devices EXCEPT ![FirstByPushToken(pushToken)] =
                   Patch(@, [ latitude |-> fuzzLocation(loc[1]),
                              longitude |-> fuzzLocation(loc[2]),
                              timezone |-> timezone,
                              lastLocationUpdate |-> now ])]
            /\ UNCHANGED nextDeviceId
       ELSE InsertDevice(NewDevice(pushToken, loc, timezone))
    /\ lastError' = NoError
    /\ DeviceOpFrame

\* devices.ts:43-78; timezone is a set: {} when the argument is absent.
updateLocation(pushToken, loc, timezone) ==
    /\ deviceOps < MaxDeviceOps
    /\ deviceOps' = deviceOps + 1
    /\ IF ByPushToken(pushToken) = {}
       THEN InsertDevice(NewDevice(pushToken, loc,
                IF timezone = {} THEN "UTC" ELSE CHOOSE tz \in timezone : TRUE))
       ELSE /\ devices' = [devices EXCEPT ![FirstByPushToken(pushToken)] =
                   Patch(@, IF timezone = {} \/ timezone = {""}
                            THEN [ latitude |-> fuzzLocation(loc[1]),
                                   longitude |-> fuzzLocation(loc[2]),
                                   lastLocationUpdate |-> now ]
                            ELSE [ latitude |-> fuzzLocation(loc[1]),
                                   longitude |-> fuzzLocation(loc[2]),
                                   timezone |-> CHOOSE tz \in timezone : TRUE,
                                   lastLocationUpdate |-> now ])]
            /\ UNCHANGED nextDeviceId
    /\ lastError' = NoError
    /\ DeviceOpFrame

\* Variant of updatePreferences: an unknown token gets a new device, as in updateLocation.
updatePreferences_AutoRegisters(pushToken, args) ==
    /\ deviceOps < MaxDeviceOps
    /\ deviceOps' = deviceOps + 1
    /\ IF ByPushToken(pushToken) = {}
       THEN InsertDevice(Patch(NewDevice(pushToken, Home, "UTC"), args))
       ELSE /\ devices' = [devices EXCEPT ![FirstByPushToken(pushToken)] = Patch(@, args)]
            /\ UNCHANGED nextDeviceId
    /\ lastError' = NoError
    /\ DeviceOpFrame

\* devices.ts:80-112; on an unknown token the mutation throws and changes nothing.
updatePreferences(pushToken, args) ==
    /\ deviceOps < MaxDeviceOps
    /\ deviceOps' = deviceOps + 1
    /\ IF ByPushToken(pushToken) = {}
       THEN /\ devices' = devices
            /\ lastError' = DeviceNotFound
       ELSE /\ devices' = [devices EXCEPT ![FirstByPushToken(pushToken)] = Patch(@, args)]
            /\ lastError' = NoError
    /\ UNCHANGED nextDeviceId
    /\ DeviceOpFrame

\* A device document is removed from outside the core (retention is external).
removeDevice(id) ==
    /\ deviceOps < MaxDeviceOps
    /\ deviceOps' = deviceOps + 1
    /\ id \in DOMAIN devices
    /\ devices' = [d \in DOMAIN devices \ {id} |-> devices[d]]
    /\ UNCHANGED << nextDeviceId, lastError >>
    /\ DeviceOpFrame

(***************************************************************************)
(* The prediction source and the push transport (external)                 *)
(***************************************************************************)

\* sunsets.ts:172-251: what one fetch for a location may return.
FetchResults(latitude, longitude) ==
    { [success |-> FALSE] } \cup
    { [success |-> TRUE,
       data |-> [quality |-> p.quality, qualityPercent |-> p.qualityPercent,
                 sunsetTime |-> st],
       query |-> << latitude, longitude >>] : p \in Predictions, st \in SunsetTimes }

\* sunsets.ts:395, 484  result.success ? result.data : null
QualityOf(result) == IF result.success THEN result ELSE Null

\* sunsets.ts:419  new Date(quality.sunsetTime).getTime()
SunsetTimestamp(quality) == quality.data.sunsetTime

\* sunsets.ts:391-392, 475-476: the prediction of demo mode, generated at instant t
DemoQuality(device, t) ==
    [ success |-> TRUE,
      data |-> generateMockSunset(device.latitude, device.timezone, t),
      query |-> << device.latitude, device.longitude >> ]

(***************************************************************************)
(* sunsets.ts: the mutations and queries of the two jobs                   *)
(***************************************************************************)

\* The local variables of one invocation of a job.
IdleRun ==
    [ pc |-> "idle",       \* the await the invocation is suspended at
      queue |-> << >>,     \* the documents the loop has still to handle, the current one first
      localHour |-> {},    \* scan: localHour
      device |-> Null,     \* sweep: device
      quality |-> Null,    \* scan: quality; sweep: currentQuality
      pushOk |-> TRUE ]    \* whether the transport accepted the last push

\* The documents of the ids, in _id (creation) order
RECURSIVE InIdOrder(_)
InIdOrder(ids) ==
    IF ids = {} THEN << >>
    ELSE LET first == CHOOSE id \in ids : \A o \in ids : id <= o
         IN  << devices[first] >> \o InIdOrder(ids \ {first})

\* sunsets.ts:272-277
getAllDevices == InIdOrder(DOMAIN devices)

\* sunsets.ts:522-527
getDeviceById(id) == IF id \in DOMAIN devices THEN devices[id] ELSE Null

\* Variant of recordNotification: the newest record is replaced.
recordNotification_Overwrites(deviceId, type, quality) ==
    notifications' =
        (IF notifications = << >> THEN << >>
         ELSE SubSeq(notifications, 1, Len(notifications) - 1))
        \o << [ deviceId |-> deviceId,
                sentAt |-> now,
                type |-> type,
                sunsetTime |-> quality.data.sunsetTime,
                quality |-> quality.data.quality,
                qualityPercent |-> quality.data.qualityPercent ] >>

\* sunsets.ts:279-297
recordNotification(deviceId, type, quality) ==
    notifications' = Append(notifications,
        [ deviceId |-> deviceId,
          sentAt |-> now,
          type |-> type,
          sunsetTime |-> quality.data.sunsetTime,
          quality |-> quality.data.quality,
          qualityPercent |-> quality.data.qualityPercent ])

\* Variant of schedulePendingReminder: the reminder fires at the sunset itself.
schedulePendingReminder_FiresAtSunset(deviceId, scheduledFor, quality, reminderType) ==
    /\ pendingReminders' = pendingReminders \cup
         { [ _id |-> nextReminderId,
             _creationTime |-> now,
             deviceId |-> deviceId,
             scheduledFor |-> quality.data.sunsetTime,
             sunsetTime |-> quality.data.sunsetTime,
             quality |-> quality.data.quality,
             qualityPercent |-> quality.data.qualityPercent,
             reminderType |-> reminderType ] }
    /\ nextReminderId' = nextReminderId + 1

\* sunsets.ts:299-318
schedulePendingReminder(deviceId, scheduledFor, quality, reminderType) ==
    /\ pendingReminders' = pendingReminders \cup
         { [ _id |-> nextReminderId,
             _creationTime |-> now,
             deviceId |-> deviceId,
             scheduledFor |-> scheduledFor,
             sunsetTime |-> quality.data.sunsetTime,
             quality |-> quality.data.quality,
             qualityPercent |-> quality.data.qualityPercent,
             reminderType |-> reminderType ] }
    /\ nextReminderId' = nextReminderId + 1

\* The documents of S ordered by (scheduledFor, _id): index by_scheduled_time
RECURSIVE InDueOrder(_)
InDueOrder(S) ==
    IF S = {} THEN << >>
    ELSE LET first == CHOOSE r \in S : \A o \in S :
                          \/ r.scheduledFor < o.scheduledFor
                          \/ (r.scheduledFor = o.scheduledFor /\ r._id <= o._id)
         IN  << first >> \o InDueOrder(S \ {first})

\* Variant of getDueReminders: every stored reminder is read, due or not.
getDueReminders_All(currentTime) == InDueOrder(pendingReminders)

\* Variant of getDueReminders: a reminder a running invocation holds is not read.
getDueReminders_Unclaimed(currentTime) ==
    InDueOrder({r \in pendingReminders :
                   /\ r.scheduledFor <= currentTime
                   /\ r \notin {sweep.queue[k] : k \in 1 .. Len(sweep.queue)}})

\* sunsets.ts:320-330
getDueReminders(currentTime) ==
    InDueOrder({r \in pendingReminders : r.scheduledFor <= currentTime})

\* Variant of deleteReminder: the reminder of a missing device is kept.
deleteReminder_KeepsOrphans(id) ==
    /\ pendingReminders' = {r \in pendingReminders :
                                r._id # id \/ r.deviceId \notin DOMAIN devices}
    /\ deleteCalls' = Append(deleteCalls, id)

\* sunsets.ts:332-337
deleteReminder(id) ==
    /\ pendingReminders' = {r \in pendingReminders : r._id # id}
    /\ deleteCalls' = Append(deleteCalls, id)

\* sunsets.ts:335, 515-518: how an invocation goes on after its deleteReminder
\* call.  db.delete of a document that another invocation has already deleted
\* either changes nothing or throws; the action does not catch, so a throw
\* ends the invocation.
AfterDelete(id, continue) ==
    IF \E r \in pendingReminders : r._id = id
    THEN { continue }
    ELSE { continue, IdleRun }

\* Variant of AfterPush: a transport failure ends the invocation.
AfterPush_Propagates(run, ok) ==
    IF ok
    THEN [run EXCEPT !.pc = "record", !.pushOk = ok]
    ELSE [run EXCEPT !.pc = "idle", !.queue = << >>, !.pushOk = ok]

\* sunsets.ts:529-558: the transport answers (ok) or fails; nothing is thrown,
\* and the caller goes on to record the notification.
AfterPush(run, ok) == [run EXCEPT !.pc = "record", !.pushOk = ok]

(***************************************************************************)
(* sunsets.ts: checkMorningSunsets                                         *)
(***************************************************************************)

\* The device of the current loop iteration (of the snapshot read at the start).
ScanDevice == Head(scan.queue)

\* continue / end of the loop body: on to the next device of the snapshot
ScanContinue ==
    IF Len(scan.queue) <= 1
    THEN IdleRun
    ELSE [IdleRun EXCEPT !.pc = "gate", !.queue = Tail(scan.queue)]

\* Worst-case numbers of documents one scan of the current devices inserts.
ScanMaxNotifications ==
    Cardinality({id \in DOMAIN devices : devices[id].notifyMorning})
ScanMaxReminders ==
    Cardinality({id \in DOMAIN devices :
                    devices[id].notifyMorning /\ devices[id].notifyHourBefore})
    + Cardinality({id \in DOMAIN devices :
                    devices[id].notifyMorning /\ devices[id].notifyTenMinBefore})

\* sunsets.ts:362-372: the cron starts an invocation; it reads all devices.
StartScan ==
    /\ scan.pc = "idle"
    /\ Len(notifications) + ScanMaxNotifications <= MaxNotifications
    /\ (nextReminderId - 1) + ScanMaxReminders <= MaxReminders
    /\ scan' = IF getAllDevices = << >>
               THEN IdleRun
               ELSE [IdleRun EXCEPT !.pc = "gate", !.queue = getAllDevices]
    /\ EnvFrame
    /\ UNCHANGED << now, devices, nextDeviceId, deviceOps, notifications,
                    pendingReminders, nextReminderId, sweep, pushes, deleteCalls >>

\* Variant of PassesGate: the notifyMorning preference is not read.
PassesGate_IgnoresPreference(device, t) ==
    InMorningWindow(getLocalHour(device.timezone, t))

\* sunsets.ts:375-380: the preference gate and the local-hour gate
PassesGate(device, t) ==
    /\ device.notifyMorning
    /\ InMorningWindow(getLocalHour(device.timezone, t))

ScanGate ==
    /\ scan.pc = "gate"
    /\ scan' = IF PassesGate(ScanDevice, now)
               THEN [scan EXCEPT !.pc = "dedup",
                                 !.localHour = getLocalHour(ScanDevice.timezone, now)]
               ELSE ScanContinue
    /\ EnvFrame
    /\ UNCHANGED << now, devices, nextDeviceId, deviceOps, notifications,
                    pendingReminders, nextReminderId, sweep, pushes, deleteCalls >>

\* sunsets.ts:382-394: the dedup query runs; then the prediction is generated
\* (demo mode, no await) or the fetch is issued
ScanDedup ==
    /\ scan.pc = "dedup"
    /\ scan' = IF hasMorningNotificationToday(ScanDevice._id, ScanDevice.timezone, now)
               THEN ScanContinue
               ELSE IF isDemoMode
                    THEN [scan EXCEPT !.pc = "classify",
                                      !.quality = DemoQuality(ScanDevice, now)]
                    ELSE [scan EXCEPT !.pc = "fetch"]
    /\ EnvFrame
    /\ UNCHANGED << now, devices, nextDeviceId, deviceOps, notifications,
                    pendingReminders, nextReminderId, sweep, pushes, deleteCalls >>

\* sunsets.ts:394-395: the fetch returns
ScanFetch ==
    /\ scan.pc = "fetch"
    /\ \E result \in FetchResults(ScanDevice.latitude, ScanDevice.longitude) :
           scan' = [scan EXCEPT !.pc = "classify", !.quality = QualityOf(result)]
    /\ EnvFrame
    /\ UNCHANGED << now, devices, nextDeviceId, deviceOps, notifications,
                    pendingReminders, nextReminderId, sweep, pushes, deleteCalls >>

\* Variant of ScanAfterFetch: a failed fetch ends the invocation.
ScanAfterFetch_Aborts(quality) ==
    IF IsNull(quality) THEN IdleRun
    ELSE IF ~MeetsThreshold(quality.data.qualityPercent, ScanDevice.minQuality)
         THEN ScanContinue
         ELSE [scan EXCEPT !.pc = "push"]

\* Variant of ScanAfterFetch: a failed fetch is tried again at once.
ScanAfterFetch_Retries(quality) ==
    IF IsNull(quality) THEN [scan EXCEPT !.pc = "fetch"]
    ELSE IF ~MeetsThreshold(quality.data.qualityPercent, ScanDevice.minQuality)
         THEN ScanContinue
         ELSE [scan EXCEPT !.pc = "push"]

\* Variant of ScanAfterFetch: below the threshold the hour reminder is still created.
ScanAfterFetch_SchedulesBelow(quality) ==
    IF IsNull(quality) THEN ScanContinue
    ELSE IF ~MeetsThreshold(quality.data.qualityPercent, ScanDevice.minQuality)
         THEN [scan EXCEPT !.pc = "hour"]
         ELSE [scan EXCEPT !.pc = "push"]

\* sunsets.ts:398-408: no data or below the threshold: continue; else the push is issued
ScanAfterFetch(quality) ==
    IF IsNull(quality) THEN ScanContinue
    ELSE IF ~MeetsThreshold(quality.data.qualityPercent, ScanDevice.minQuality)
         THEN ScanContinue
         ELSE [scan EXCEPT !.pc = "push"]

ScanClassify ==
    /\ scan.pc = "classify"
    /\ scan' = ScanAfterFetch(scan.quality)
    /\ EnvFrame
    /\ UNCHANGED << now, devices, nextDeviceId, deviceOps, notifications,
                    pendingReminders, nextReminderId, sweep, pushes, deleteCalls >>

\* sunsets.ts:404-408: the push transport is called
ScanPush ==
    /\ scan.pc = "push"
    /\ \E ok \in BOOLEAN :
           /\ pushes' = Append(pushes, [to |-> ScanDevice.pushToken, kind |-> "morning"])
           /\ scan' = AfterPush(scan, ok)
    /\ EnvFrame
    /\ UNCHANGED << now, devices, nextDeviceId, deviceOps, notifications,
                    pendingReminders, nextReminderId, sweep, deleteCalls >>

\* sunsets.ts:421-424: the one-hour reminder is to be created
WantsHour(device, quality, t) ==
    /\ device.notifyHourBefore
    /\ SunsetTimestamp(quality) - HourBeforeMinutes > t

\* Variant of WantsTenMin: the ten-minute reminder needs the hour toggle too.
WantsTenMin_NeedsHour(device, quality, t) ==
    /\ device.notifyTenMinBefore
    /\ device.notifyHourBefore
    /\ SunsetTimestamp(quality) - TenMinBeforeMinutes > t

\* sunsets.ts:436-439: the ten-minute reminder is to be created
WantsTenMin(device, quality, t) ==
    /\ device.notifyTenMinBefore
    /\ SunsetTimestamp(quality) - TenMinBeforeMinutes > t

\* sunsets.ts:436-450: the ten-minute reminder is decided
ScanAfterHour ==
    IF WantsTenMin(ScanDevice, scan.quality, now)
    THEN [scan EXCEPT !.pc = "tenmin"]
    ELSE ScanContinue

\* sunsets.ts:410-424: the notification is recorded; the hour reminder is decided
ScanRecord ==
    /\ scan.pc = "record"
    /\ recordNotification(ScanDevice._id, "morning", scan.quality)
    /\ scan' = IF WantsHour(ScanDevice, scan.quality, now)
               THEN [scan EXCEPT !.pc = "hour"]
               ELSE ScanAfterHour
    /\ EnvFrame
    /\ UNCHANGED << now, devices, nextDeviceId, deviceOps, pendingReminders,
                    nextReminderId, sweep, pushes, deleteCalls >>

\* sunsets.ts:425-439: the hour reminder is inserted; the ten-minute one is decided
ScanScheduleHour ==
    /\ scan.pc = "hour"
    /\ schedulePendingReminder(ScanDevice._id,
           SunsetTimestamp(scan.quality) - HourBeforeMinutes, scan.quality, "hour")
    /\ scan' = ScanAfterHour
    /\ EnvFrame
    /\ UNCHANGED << now, devices, nextDeviceId, deviceOps, notifications,
                    sweep, pushes, deleteCalls >>

\* sunsets.ts:440-450: the ten-minute reminder is inserted
ScanScheduleTenMin ==
    /\ scan.pc = "tenmin"
    /\ schedulePendingReminder(ScanDevice._id,
           SunsetTimestamp(scan.quality) - TenMinBeforeMinutes, scan.quality, "tenmin")
    /\ scan' = ScanContinue
    /\ EnvFrame
    /\ UNCHANGED << now, devices, nextDeviceId, deviceOps, notifications,
                    sweep, pushes, deleteCalls >>

(***************************************************************************)
(* sunsets.ts: sendDueReminders                                            *)
(***************************************************************************)

\* The reminder of the current loop iteration.
SweepReminder == Head(sweep.queue)

\* end of the loop body: on to the next due reminder
SweepContinue ==
    IF Len(sweep.queue) <= 1
    THEN IdleRun
    ELSE [IdleRun EXCEPT !.pc = "getDevice", !.queue = Tail(sweep.queue)]

\* sunsets.ts:454-462: the cron starts an invocation; it reads the due reminders.
StartSweep ==
    /\ sweep.pc = "idle"
    /\ Len(notifications) + Len(getDueReminders(now)) <= MaxNotifications
    /\ sweep' = IF getDueReminders(now) = << >>
                THEN IdleRun
                ELSE [IdleRun EXCEPT !.pc = "getDevice", !.queue = getDueReminders(now)]
    /\ EnvFrame
    /\ UNCHANGED << now, devices, nextDeviceId, deviceOps, notifications,
                    pendingReminders, nextReminderId, scan, pushes, deleteCalls >>

\* Variant of SweepMeetsThreshold: any fetched prediction is sent.
SweepMeetsThreshold_AnyPrediction(device, reminder, currentQuality) ==
    ~IsNull(currentQuality)

\* Variant of SweepMeetsThreshold: the percent stored in the reminder decides.
SweepMeetsThreshold_Snapshot(device, reminder, currentQuality) ==
    /\ ~IsNull(currentQuality)
    /\ MeetsThreshold(reminder.qualityPercent, device.minQuality)

\* sunsets.ts:487-491: the decision to send the reminder
SweepMeetsThreshold(device, reminder, currentQuality) ==
    /\ ~IsNull(currentQuality)
    /\ MeetsThreshold(currentQuality.data.qualityPercent, device.minQuality)

\* Variant of SweepAfterFetch: a reminder that is not sent is kept for the next run.
SweepAfterFetch_KeepsDropped(device, currentQuality) ==
    IF SweepMeetsThreshold(device, SweepReminder, currentQuality)
    THEN [sweep EXCEPT !.pc = "push", !.device = device, !.quality = currentQuality]
    ELSE SweepContinue

\* sunsets.ts:487-512: the reminder is sent (the push is issued) or dropped
SweepAfterFetch(device, currentQuality) ==
    IF SweepMeetsThreshold(device, SweepReminder, currentQuality)
    THEN [sweep EXCEPT !.pc = "push", !.device = device, !.quality = currentQuality]
    ELSE [sweep EXCEPT !.pc = "delete", !.device = device, !.quality = currentQuality]

\* Variant of SweepAfterGetDevice: a reminder of a missing device is left alone.
SweepAfterGetDevice_SkipsDelete(device) ==
    IF IsNull(device)
    THEN SweepContinue
    ELSE IF isDemoMode
         THEN SweepAfterFetch(device, DemoQuality(device, now))
         ELSE [sweep EXCEPT !.pc = "fetch", !.device = device]

\* sunsets.ts:465-485: the owning device is read; if it exists the prediction is
\* generated (demo mode, no await) or the fetch is issued
SweepAfterGetDevice(device) ==
    IF IsNull(device)
    THEN [sweep EXCEPT !.pc = "delete"]
    ELSE IF isDemoMode
         THEN SweepAfterFetch(device, DemoQuality(device, now))
         ELSE [sweep EXCEPT !.pc = "fetch", !.device = device]

SweepGetDevice ==
    /\ sweep.pc = "getDevice"
    /\ sweep' = SweepAfterGetDevice(getDeviceById(SweepReminder.deviceId))
    /\ EnvFrame
    /\ UNCHANGED << now, devices, nextDeviceId, deviceOps, notifications,
                    pendingReminders, nextReminderId, scan, pushes, deleteCalls >>

\* sunsets.ts:478-512: the fetch returns; the reminder is sent or dropped
SweepFetch ==
    /\ sweep.pc = "fetch"
    /\ \E result \in FetchResults(sweep.device.latitude, sweep.device.longitude) :
           sweep' = SweepAfterFetch(sweep.device, QualityOf(result))
    /\ EnvFrame
    /\ UNCHANGED << now, devices, nextDeviceId, deviceOps, notifications,
                    pendingReminders, nextReminderId, scan, pushes, deleteCalls >>

\* sunsets.ts:492-496: the copy of the push
ReminderKind(reminder) == IF reminder.reminderType = "tenmin" THEN "tenmin" ELSE "hour"

\* sunsets.ts:498: the push transport is called
SweepPush ==
    /\ sweep.pc = "push"
    /\ \E ok \in BOOLEAN :
           /\ pushes' = Append(pushes, [to |-> sweep.device.pushToken,
                                        kind |-> ReminderKind(SweepReminder)])
           /\ sweep' = AfterPush(sweep, ok)
    /\ EnvFrame
    /\ UNCHANGED << now, devices, nextDeviceId, deviceOps, notifications,
                    pendingReminders, nextReminderId, scan, deleteCalls >>

\* sunsets.ts:500-506: the notification is recorded
SweepRecord ==
    /\ sweep.pc = "record"
    /\ recordNotification(sweep.device._id, "reminder", sweep.quality)
    /\ sweep' = [sweep EXCEPT !.pc = "delete"]
    /\ EnvFrame
    /\ UNCHANGED << now, devices, nextDeviceId, deviceOps, pendingReminders,
                    nextReminderId, scan, pushes, deleteCalls >>

\* sunsets.ts:515-518: the reminder is deleted
SweepDelete ==
    /\ sweep.pc = "delete"
    /\ deleteReminder(SweepReminder._id)
    /\ sweep' \in AfterDelete(SweepReminder._id, SweepContinue)
    /\ EnvFrame
    /\ UNCHANGED << now, devices, nextDeviceId, deviceOps, notifications,
                    nextReminderId, scan, pushes >>

(***************************************************************************)
(* sunsets.ts: a second invocation of sendDueReminders that starts while   *)
(* the first is still running (nothing in the action excludes it)          *)
(***************************************************************************)

OtherSweepReminder == Head(otherSweep.queue)

OtherSweepContinue ==
    IF Len(otherSweep.queue) <= 1
    THEN IdleRun
    ELSE [IdleRun EXCEPT !.pc = "getDevice", !.queue = Tail(otherSweep.queue)]

OtherSweepFrame ==
    UNCHANGED << now, devices, nextDeviceId, deviceOps, nextReminderId, scan, sweep,
                 isDemoMode, otherScan, lastError, calls >>

\* sunsets.ts:454-462
StartOtherSweep ==
    /\ otherSweep.pc = "idle"
    /\ sweep.pc # "idle"
    /\ getDueReminders(now) # << >>
    /\ Len(notifications) + Len(sweep.queue) + Len(getDueReminders(now))
         <= MaxNotifications
    /\ otherSweep' = [IdleRun EXCEPT !.pc = "getDevice", !.queue = getDueReminders(now)]
    /\ OtherSweepFrame
    /\ UNCHANGED << notifications, pendingReminders, pushes, deleteCalls >>

\* sunsets.ts:487-512
OtherSweepAfterFetch(device, currentQuality) ==
    IF SweepMeetsThreshold(device, OtherSweepReminder, currentQuality)
    THEN [otherSweep EXCEPT !.pc = "push", !.device = device,
                            !.quality = currentQuality]
    ELSE [otherSweep EXCEPT !.pc = "delete", !.device = device,
                            !.quality = currentQuality]

\* sunsets.ts:465-485
OtherSweepGetDevice ==
    /\ otherSweep.pc = "getDevice"
    /\ LET device == getDeviceById(OtherSweepReminder.deviceId)
       IN  otherSweep' =
             IF IsNull(device)
             THEN [otherSweep EXCEPT !.pc = "delete"]
             ELSE IF isDemoMode
                  THEN OtherSweepAfterFetch(device, DemoQuality(device, now))
                  ELSE [otherSweep EXCEPT !.pc = "fetch", !.device = device]
    /\ OtherSweepFrame
    /\ UNCHANGED << notifications, pendingReminders, pushes, deleteCalls >>

\* sunsets.ts:478-512
OtherSweepFetch ==
    /\ otherSweep.pc = "fetch"
    /\ \E result \in FetchResults(otherSweep.device.latitude,
                                  otherSweep.device.longitude) :
           otherSweep' = OtherSweepAfterFetch(otherSweep.device, QualityOf(result))
    /\ OtherSweepFrame
    /\ UNCHANGED << notifications, pendingReminders, pushes, deleteCalls >>

\* sunsets.ts:498
OtherSweepPush ==
    /\ otherSweep.pc = "push"
    /\ \E ok \in BOOLEAN :
           /\ pushes' = Append(pushes, [to |-> otherSweep.device.pushToken,
                                        kind |-> ReminderKind(OtherSweepReminder)])
           /\ otherSweep' = AfterPush(otherSweep, ok)
    /\ OtherSweepFrame
    /\ UNCHANGED << notifications, pendingReminders, deleteCalls >>

\* sunsets.ts:500-506
OtherSweepRecord ==
    /\ otherSweep.pc = "record"
    /\ recordNotification(otherSweep.device._id, "reminder", otherSweep.quality)
    /\ otherSweep' = [otherSweep EXCEPT !.pc = "delete"]
    /\ OtherSweepFrame
    /\ UNCHANGED << pendingReminders, pushes, deleteCalls >>

\* sunsets.ts:515-518
OtherSweepDelete ==
    /\ otherSweep.pc = "delete"
    /\ deleteReminder(OtherSweepReminder._id)
    /\ otherSweep' \in AfterDelete(OtherSweepReminder._id, OtherSweepContinue)
    /\ OtherSweepFrame
    /\ UNCHANGED << notifications, pushes >>

(***************************************************************************)
(* sunsets.ts: a second invocation of checkMorningSunsets that starts      *)
(* while the first is still running (nothing in the action excludes it)    *)
(***************************************************************************)

OtherScanDevice == Head(otherScan.queue)

OtherScanContinue ==
    IF Len(otherScan.queue) <= 1
    THEN IdleRun
    ELSE [IdleRun EXCEPT !.pc = "gate", !.queue = Tail(otherScan.queue)]

OtherScanFrame ==
    UNCHANGED << now, devices, nextDeviceId, deviceOps, scan, sweep, deleteCalls,
                 isDemoMode, otherSweep, lastError, calls >>

\* sunsets.ts:362-372
StartOtherScan ==
    /\ otherScan.pc = "idle"
    /\ scan.pc # "idle"
    /\ getAllDevices # << >>
    /\ Len(notifications) + Len(scan.queue) + ScanMaxNotifications <= MaxNotifications
    /\ (nextReminderId - 1) + 2 * ScanMaxReminders <= MaxReminders
    /\ otherScan' = [IdleRun EXCEPT !.pc = "gate", !.queue = getAllDevices]
    /\ OtherScanFrame
    /\ UNCHANGED << notifications, pendingReminders, nextReminderId, pushes >>

\* sunsets.ts:375-380
OtherScanGate ==
    /\ otherScan.pc = "gate"
    /\ otherScan' =
         IF PassesGate(OtherScanDevice, now)
         THEN [otherScan EXCEPT !.pc = "dedup",
                                !.localHour = getLocalHour(OtherScanDevice.timezone, now)]
         ELSE OtherScanContinue
    /\ OtherScanFrame
    /\ UNCHANGED << notifications, pendingReminders, nextReminderId, pushes >>

\* sunsets.ts:382-394
OtherScanDedup ==
    /\ otherScan.pc = "dedup"
    /\ otherScan' =
         IF hasMorningNotificationToday(OtherScanDevice._id, OtherScanDevice.timezone, now)
         THEN OtherScanContinue
         ELSE IF isDemoMode
              THEN [otherScan EXCEPT !.pc = "classify",
                                     !.quality = DemoQuality(OtherScanDevice, now)]
              ELSE [otherScan EXCEPT !.pc = "fetch"]
    /\ OtherScanFrame
    /\ UNCHANGED << notifications, pendingReminders, nextReminderId, pushes >>

\* sunsets.ts:394-395
OtherScanFetch ==
    /\ otherScan.pc = "fetch"
    /\ \E result \in FetchResults(OtherScanDevice.latitude, OtherScanDevice.longitude) :
           otherScan' = [otherScan EXCEPT !.pc = "classify", !.quality = QualityOf(result)]
    /\ OtherScanFrame
    /\ UNCHANGED << notifications, pendingReminders, nextReminderId, pushes >>

\* sunsets.ts:398-408
OtherScanClassify ==
    /\ otherScan.pc = "classify"
    /\ otherScan' =
         IF IsNull(otherScan.quality) THEN OtherScanContinue
         ELSE IF ~MeetsThreshold(otherScan.quality.data.qualityPercent,
                                 OtherScanDevice.minQuality)
              THEN OtherScanContinue
              ELSE [otherScan EXCEPT !.pc = "push"]
    /\ OtherScanFrame
    /\ UNCHANGED << notifications, pendingReminders, nextReminderId, pushes >>

\* sunsets.ts:404-408
OtherScanPush ==
    /\ otherScan.pc = "push"
    /\ \E ok \in BOOLEAN :
           /\ pushes' = Append(pushes, [to |-> OtherScanDevice.pushToken,
                                        kind |-> "morning"])
           /\ otherScan' = AfterPush(otherScan, ok)
    /\ OtherScanFrame
    /\ UNCHANGED << notifications, pendingReminders, nextReminderId >>

\* sunsets.ts:436-450
OtherScanAfterHour ==
    IF WantsTenMin(OtherScanDevice, otherScan.quality, now)
    THEN [otherScan EXCEPT !.pc = "tenmin"]
    ELSE OtherScanContinue

\* sunsets.ts:410-424
OtherScanRecord ==
    /\ otherScan.pc = "record"
    /\ recordNotification(OtherScanDevice._id, "morning", otherScan.quality)
    /\ otherScan' = IF WantsHour(OtherScanDevice, otherScan.quality, now)
                    THEN [otherScan EXCEPT !.pc = "hour"]
                    ELSE OtherScanAfterHour
    /\ OtherScanFrame
    /\ UNCHANGED << pendingReminders, nextReminderId, pushes >>

\* sunsets.ts:425-439
OtherScanScheduleHour ==
    /\ otherScan.pc = "hour"
    /\ schedulePendingReminder(OtherScanDevice._id,
           SunsetTimestamp(otherScan.quality) - HourBeforeMinutes,
           otherScan.quality, "hour")
    /\ otherScan' = OtherScanAfterHour
    /\ OtherScanFrame
    /\ UNCHANGED << notifications, pushes >>

\* sunsets.ts:440-450
OtherScanScheduleTenMin ==
    /\ otherScan.pc = "tenmin"
    /\ schedulePendingReminder(OtherScanDevice._id,
           SunsetTimestamp(otherScan.quality) - TenMinBeforeMinutes,
           otherScan.quality, "tenmin")
    /\ otherScan' = OtherScanContinue
    /\ OtherScanFrame
    /\ UNCHANGED << notifications, pushes >>

(***************************************************************************)
(* The system                                                              *)
(***************************************************************************)
Init ==
    /\ now = StartTime
    /\ devices = << >>
    /\ nextDeviceId = 1
    /\ deviceOps = 0
    /\ notifications = << >>
    /\ pendingReminders = {}
    /\ nextReminderId = 1
    /\ scan = IdleRun
    /\ sweep = IdleRun
    /\ pushes = << >>
    /\ deleteCalls = << >>
    /\ isDemoMode \in BOOLEAN
    /\ otherSweep = IdleRun
    /\ otherScan = IdleRun
    /\ lastError = NoError
    /\ calls = << >>

\* Time passes.
Tick ==
    /\ \E t \in Instants : t > now /\ now' = t
    /\ EnvFrame
    /\ UNCHANGED << devices, nextDeviceId, deviceOps, notifications, pendingReminders,
                    nextReminderId, scan, sweep, pushes, deleteCalls >>

\* A client (or, for removeDevice, an operator) calls a mutation of devices.ts.
DeviceOp ==
    \/ \E tok \in Tokens, a \in RegisterArgs : register(tok, a[1], a[2])
    \/ \E tok \in Tokens, a \in UpdateLocationArgs : updateLocation(tok, a[1], a[2])
    \/ \E tok \in Tokens, args \in PreferenceArgs : updatePreferences(tok, args)
    \/ \E id \in DeviceIds : removeDevice(id)

\* crons.ts "morning sunset check": one invocation at a time
ScanStep ==
    \/ StartScan
    \/ ScanGate
    \/ ScanDedup
    \/ ScanFetch
    \/ ScanClassify
    \/ ScanPush
    \/ ScanRecord
    \/ ScanScheduleHour
    \/ ScanScheduleTenMin

\* crons.ts "send due reminders": one invocation at a time
SweepStep ==
    \/ StartSweep
    \/ SweepGetDevice
    \/ SweepFetch
    \/ SweepPush
    \/ SweepRecord
    \/ SweepDelete

Next ==
    \/ Tick
    \/ DeviceOp
    \/ ScanStep
    \/ SweepStep

Spec == Init /\ [][Next]_vars

\* A second invocation of "send due reminders" overlapping the first
OtherSweepStep ==
    \/ StartOtherSweep
    \/ OtherSweepGetDevice
    \/ OtherSweepFetch
    \/ OtherSweepPush
    \/ OtherSweepRecord
    \/ OtherSweepDelete

\* One client registers its device and may turn the ten-minute reminder on.
OverlapClient ==
    \/ \E a \in RegisterArgs : register(TokenNames[1], a[1], a[2])
    \/ updatePreferences(TokenNames[1], [notifyTenMinBefore |-> TRUE])

OverlapNext ==
    \/ Tick
    \/ OverlapClient
    \/ ScanStep
    \/ SweepStep
    \/ OtherSweepStep

\* The system when two invocations of the sweep may overlap.
OverlapSpec == Init /\ [][OverlapNext]_vars

(***************************************************************************)
(* The system with its schedule: time passes, the cron keeps triggering    *)
(* the sweep, and a running sweep goes on to its next await                *)
(***************************************************************************)

\* sunsets.ts:362-372: the cron starts a scan.  The scan starts only while
\* the notification table has room for its own records and for those of the
\* reminders, so that the table never keeps a sweep from starting.
LiveStartScan ==
    /\ scan.pc = "idle"
    /\ Len(notifications) + Cardinality(pendingReminders)
         + ScanMaxNotifications + ScanMaxReminders <= MaxNotifications
    /\ (nextReminderId - 1) + ScanMaxReminders <= MaxReminders
    /\ scan' = IF getAllDevices = << >>
               THEN IdleRun
               ELSE [IdleRun EXCEPT !.pc = "gate", !.queue = getAllDevices]
    /\ EnvFrame
    /\ UNCHANGED << now, devices, nextDeviceId, deviceOps, notifications,
                    pendingReminders, nextReminderId, sweep, pushes, deleteCalls >>

LiveNext ==
    \/ Tick
    \/ DeviceOp
    \/ LiveStartScan
    \/ ScanGate
    \/ ScanDedup
    \/ ScanFetch
    \/ ScanClassify
    \/ ScanPush
    \/ ScanRecord
    \/ ScanScheduleHour
    \/ ScanScheduleTenMin
    \/ SweepStep

\* crons.ts: the sweep is triggered every 5 minutes; an await of a running
\* sweep returns (the fetch has a timeout, the push catches its errors).
LiveFairness ==
    /\ WF_vars(Tick)
    /\ WF_vars(StartSweep)
    /\ WF_vars(SweepGetDevice)
    /\ WF_vars(SweepFetch)
    /\ WF_vars(SweepPush)
    /\ WF_vars(SweepRecord)
    /\ WF_vars(SweepDelete)

LiveSpec == Init /\ [][LiveNext]_vars /\ LiveFairness

(***************************************************************************)
(* The pure functions, applied to inputs drawn from bounded sets           *)
(***************************************************************************)

PureFrame ==
    UNCHANGED << devices, nextDeviceId, deviceOps, notifications, pendingReminders,
                 nextReminderId, scan, sweep, pushes, deleteCalls, isDemoMode,
                 otherSweep, otherScan, lastError >>

PureInit ==
    /\ now \in PureInstants
    /\ devices = << >>
    /\ nextDeviceId = 1
    /\ deviceOps = 0
    /\ notifications = << >>
    /\ pendingReminders = {}
    /\ nextReminderId = 1
    /\ scan = IdleRun
    /\ sweep = IdleRun
    /\ pushes = << >>
    /\ deleteCalls = << >>
    /\ isDemoMode = TRUE
    /\ otherSweep = IdleRun
    /\ otherScan = IdleRun
    /\ lastError = NoError
    /\ calls = << >>

\* sunsets.ts:400-401: the threshold comparison is applied
CallMeetsThreshold(qualityPercent, minQuality) ==
    /\ calls = << >>
    /\ calls' = << [ fn |-> "MeetsThreshold",
                     qualityPercent |-> qualityPercent,
                     minQuality |-> minQuality,
                     result |-> MeetsThreshold(qualityPercent, minQuality) ] >>
    /\ UNCHANGED now
    /\ PureFrame

\* sunsets.ts:391-392: the generator is called, and called again with the
\* same arguments
CallGenerateMockSunset(latitude, timezone) ==
    /\ Len(calls) < MaxCalls
    /\ calls # << >> =>
         /\ calls[1].fn = "generateMockSunset"
         /\ calls[1].latitude = latitude
         /\ calls[1].timezone = timezone
    /\ calls' = Append(calls, [ fn |-> "generateMockSunset",
                                latitude |-> latitude,
                                timezone |-> timezone,
                                at |-> now,
                                result |-> generateMockSunset(latitude, timezone, now) ])
    /\ UNCHANGED now
    /\ PureFrame

\* sunsets.ts:137-141: the conversion is applied to a wall-clock time of the
\* current calendar date of the timezone
CallLocalTimeToUTC(hour, minute, timezone) ==
    /\ calls = << >>
    /\ LET dateStr == formatDateForTimezone(now, timezone)
       IN  calls' = << [ fn |-> "localTimeToUTC",
                         dateStr |-> dateStr,
                         hour |-> hour,
                         minute |-> minute,
                         timezone |-> timezone,
                         result |-> localTimeToUTC(dateStr, hour, minute, timezone) ] >>
    /\ UNCHANGED now
    /\ PureFrame

\* Up to a day passes between two calls of the generator.
PureTick ==
    /\ calls # << >>
    /\ Len(calls) < MaxCalls
    /\ calls[1].fn = "generateMockSunset"
    /\ \E t \in PureInstants :
           t > now /\ t <= calls[1].at + MinutesPerDay /\ now' = t
    /\ UNCHANGED calls
    /\ PureFrame

PureNext ==
    \/ \E p \in Percents, minQuality \in Levels : CallMeetsThreshold(p, minQuality)
    \/ \E latitude \in PureLatitudes, timezone \in PureTimezones :
           CallGenerateMockSunset(latitude, timezone)
    \/ \E hour \in ClockHours, minute \in ClockMinutes, timezone \in ClockTimezones :
           CallLocalTimeToUTC(hour, minute, timezone)
    \/ PureTick

PureSpec == PureInit /\ [][PureNext]_vars

\* A second invocation of "morning sunset check" overlapping the first
OtherScanStep ==
    \/ StartOtherScan
    \/ OtherScanGate
    \/ OtherScanDedup
    \/ OtherScanFetch
    \/ OtherScanClassify
    \/ OtherScanPush
    \/ OtherScanRecord
    \/ OtherScanScheduleHour
    \/ OtherScanScheduleTenMin

\* One client registers its device and may swap the hour reminder for the
\* ten-minute one.
ScanOverlapClient ==
    \/ \E a \in RegisterArgs : register(TokenNames[1], a[1], a[2])
    \/ updatePreferences(TokenNames[1],
                         [notifyHourBefore |-> FALSE, notifyTenMinBefore |-> TRUE])

ScanOverlapNext ==
    \/ Tick
    \/ ScanOverlapClient
    \/ ScanStep
    \/ OtherScanStep

\* The system when two invocations of the scan may overlap.
ScanOverlapSpec == Init /\ [][ScanOverlapNext]_vars

(***************************************************************************)
(* The same-day dedup of the scan, on a deployment that has been running:  *)
(* one device is registered, and the notification table holds what earlier *)
(* runs wrote for it                                                       *)
(***************************************************************************)

\* 04:00Z of day 2 = 16:00 of day 1 at UTC-12
DedupStart == Day2 + 4 * 60

\* The instants of the scans: 16:00 and 17:00 of day 1, 11:00 and 12:00 of
\* day 2 at UTC-12
DedupInstants ==
    { Day2 + 4 * 60, Day2 + 5 * 60, Day2 + 23 * 60, Day2 + 24 * 60 }

\* devices.ts:30-39: the document register inserted for the first device
DedupDevice(timezone) ==
    [ _id |-> 1,
      pushToken |-> TokenNames[1],
      latitude |-> fuzzLocation(Home[1]),
      longitude |-> fuzzLocation(Home[2]),
      timezone |-> timezone,
      lastLocationUpdate |-> StartTime,
      notifyMorning |-> TRUE,
      notifyHourBefore |-> TRUE,
      notifyTenMinBefore |-> FALSE,
      minQuality |-> "Good" ]

\* sunsets.ts:279-297: the records earlier runs wrote for the device.  The
\* morning record of 23:00Z of day 1 (11:00 of day 1 at UTC-12), then the
\* records of its hour reminder and of its ten-minute reminder, each written
\* once by every sweep invocation that read the reminder.
DedupRecord(type, sentAt) ==
    [ deviceId |-> 1,
      sentAt |-> sentAt,
      type |-> type,
      sunsetTime |-> Day2 + 2 * 60,
      quality |-> "Good",
      qualityPercent |-> 41 ]

DedupHistory ==
    << DedupRecord("morning", Day1 + 23 * 60),
       DedupRecord("reminder", Day2 + 60),
       DedupRecord("reminder", Day2 + 60),
       DedupRecord("reminder", Day2 + 60),
       DedupRecord("reminder", Day2 + 110),
       DedupRecord("reminder", Day2 + 110) >>

DedupTables == { SubSeq(DedupHistory, 1, n) : n \in 0 .. Len(DedupHistory) }

DedupInit ==
    /\ now = DedupStart
    /\ \E timezone \in {"Etc/GMT+12", "Pacific/Kiritimati"} :
          devices = (1 :> DedupDevice(timezone))
    /\ nextDeviceId = 2
    /\ deviceOps = 0
    /\ notifications \in DedupTables
    /\ pendingReminders = {}
    /\ nextReminderId = 1
    /\ scan = IdleRun
    /\ sweep = IdleRun
    /\ pushes = << >>
    /\ deleteCalls = << >>
    /\ isDemoMode \in BOOLEAN
    /\ otherSweep = IdleRun
    /\ otherScan = IdleRun
    /\ lastError = NoError
    /\ calls = << >>

\* Time passes.
DedupTick ==
    /\ \E t \in DedupInstants : t > now /\ now' = t
    /\ EnvFrame
    /\ UNCHANGED << devices, nextDeviceId, deviceOps, notifications, pendingReminders,
                    nextReminderId, scan, sweep, pushes, deleteCalls >>

\* The owner of the device lowers the threshold or turns the ten-minute
\* reminder on.
DedupClient ==
    \/ updatePreferences(TokenNames[1], [minQuality |-> "Fair"])
    \/ updatePreferences(TokenNames[1], [notifyTenMinBefore |-> TRUE])

\* sunsets.ts:362-372: the cron starts an invocation; it reads all devices.
DedupStartScan ==
    /\ scan.pc = "idle"
    /\ Len(notifications) + ScanMaxNotifications <= MaxWindowNotifications
    /\ scan' = IF getAllDevices = << >>
               THEN IdleRun
               ELSE [IdleRun EXCEPT !.pc = "gate", !.queue = getAllDevices]
    /\ EnvFrame
    /\ UNCHANGED << now, devices, nextDeviceId, deviceOps, notifications,
                    pendingReminders, nextReminderId, sweep, pushes, deleteCalls >>

DedupNext ==
    \/ DedupTick
    \/ DedupClient
    \/ DedupStartScan
    \/ ScanGate
    \/ ScanDedup
    \/ ScanFetch
    \/ ScanClassify
    \/ ScanPush
    \/ ScanRecord
    \/ ScanScheduleHour
    \/ ScanScheduleTenMin

DedupSpec == DedupInit /\ [][DedupNext]_vars

(***************************************************************************)
(* The mutations of devices.ts, on a deployment in which a device may be   *)
(* registered already and its owner may have set any preferences           *)
(***************************************************************************)

\* devices.ts:83-86: the preferences updatePreferences can have left in a document
DevicePreferences ==
    [ notifyMorning : BOOLEAN,
      notifyHourBefore : BOOLEAN,
      notifyTenMinBefore : BOOLEAN,
      minQuality : {"Fair", "Good", "Great"} ]

\* The table devices: empty, or the first device with some preferences
DeviceTables ==
    { << >> } \cup
    { (1 :> Patch(DedupDevice("Etc/GMT+12"), prefs)) : prefs \in DevicePreferences }

DeviceInit ==
    /\ now = StartTime
    /\ devices \in DeviceTables
    /\ nextDeviceId = Cardinality(DOMAIN devices) + 1
    /\ deviceOps = 0
    /\ notifications = << >>
    /\ pendingReminders = {}
    /\ nextReminderId = 1
    /\ scan = IdleRun
    /\ sweep = IdleRun
    /\ pushes = << >>
    /\ deleteCalls = << >>
    /\ isDemoMode \in BOOLEAN
    /\ otherSweep = IdleRun
    /\ otherScan = IdleRun
    /\ lastError = NoError
    /\ calls = << >>

DeviceNext ==
    \/ Tick
    \/ DeviceOp

DeviceSpec == DeviceInit /\ [][DeviceNext]_vars

(***************************************************************************)
(* Properties                                                              *)
(*                                                                         *)
(* In Spec one step is a step of one actor: a step that changes scan is a  *)
(* step of checkMorningSunsets, a step that changes sweep is a step of     *)
(* sendDueReminders.                                                       *)
(***************************************************************************)

\* The elements of a sequence
SeqRange(s) == { s[i] : i \in 1 .. Len(s) }

\* The local hour and the local calendar day of instant t at a UTC offset
HourOf(t, timezone) == ((t + TzOffset[timezone]) % 1440) \div 60
LocalDay(t, timezone) == (t + TzOffset[timezone]) \div 1440

\* No push is sent, no notification recorded, no reminder created or deleted
NoSideEffect == UNCHANGED << pushes, notifications, pendingReminders >>

\* The scan sends, records and schedules only past the gates of the iteration
ScanWritesOnlyPastGate ==
    (scan' # scan /\ ~NoSideEffect) => scan.pc \in {"push", "record", "hour", "tenmin"}

\* The positions of the notifications of a type
OfType(type) == { i \in 1 .. Len(notifications) : notifications[i].type = type }

----------------------------------------------------------------------------
\* C1: any number of non-overlapping runs of the Morning Scan within one
\* local calendar day of a device whose record is unchanged record at most
\* one notification of type morning for the device, for every timezone.
\* (deviceOps = 1: the device was registered and never touched again; the
\* two records compared are at least one hourly tick apart.)
C1_OneMorningPerLocalDay ==
    \A d \in DOMAIN devices :
        (deviceOps = 1 /\ devices[d].timezone \in DOMAIN TzOffset) =>
            \A i, j \in OfType("morning") :
                (/\ i < j
                 /\ notifications[i].sentAt + 60 <= notifications[j].sentAt
                 /\ notifications[i].deviceId = d
                 /\ notifications[j].deviceId = d)
                => LocalDay(notifications[i].sentAt, devices[d].timezone)
                     # LocalDay(notifications[j].sentAt, devices[d].timezone)

----------------------------------------------------------------------------
\* C2: a run of the Reminder Sweep reads exactly the due reminders, and each
\* reminder it read leaves its work list only by being deleted, once, on
\* every branch; a finished run has an empty work list, and a deleted
\* reminder is never in the store again.
C2_SweepDeletesEachReadReminderOnce ==
    /\ [](/\ \A i, j \in 1 .. Len(deleteCalls) : i # j => deleteCalls[i] # deleteCalls[j]
          /\ \A r \in pendingReminders : r._id \notin SeqRange(deleteCalls)
          /\ \A k \in 1 .. Len(sweep.queue) : sweep.queue[k] \in pendingReminders
          /\ (sweep.pc = "idle") <=> (sweep.queue = << >>))
    /\ [][ /\ (sweep.pc = "idle" /\ sweep' # sweep) =>
                SeqRange(sweep'.queue) = {r \in pendingReminders : r.scheduledFor <= now}
           /\ (sweep.pc # "idle" /\ sweep'.queue # sweep.queue) =>
                /\ sweep.pc = "delete"
                /\ sweep'.queue = Tail(sweep.queue)
                /\ deleteCalls' = Append(deleteCalls, Head(sweep.queue)._id)
                /\ Head(sweep.queue) \notin pendingReminders'
           /\ (sweep.pc \notin {"idle", "delete"} /\ sweep' # sweep) =>
                sweep'.pc # "idle"
         ]_vars

\* A finished sweep has deleted two reminders, one sent and one dropped.
C2_witness ==
    /\ sweep.pc = "idle"
    /\ Len(deleteCalls) = 2
    /\ pendingReminders = {}
    /\ Cardinality(OfType("reminder")) = 1

----------------------------------------------------------------------------
\* C3: for a device whose notifyMorning is false when the scan evaluates it,
\* the scan sends no push, records no notification and creates no reminder:
\* its only step for the device is the skip.
C3_NotifyMorningOffIsSkipped ==
    /\ [](scan.pc \notin {"idle", "gate"} => ScanDevice.notifyMorning)
    /\ [][ /\ (scan' # scan /\ scan.pc # "idle" /\ ~ScanDevice.notifyMorning) =>
                /\ scan.pc = "gate"
                /\ scan'.pc \in {"idle", "gate"}
                /\ scan'.queue = Tail(scan.queue)
                /\ NoSideEffect
           /\ ScanWritesOnlyPastGate
         ]_vars

\* The scan is about to evaluate a device that turned morning alerts off, at
\* a local hour inside the window.
C3_witness ==
    /\ scan.pc = "gate"
    /\ ~ScanDevice.notifyMorning
    /\ ScanDevice.timezone \in DOMAIN TzOffset
    /\ HourOf(now, ScanDevice.timezone) \in 11 .. 16

----------------------------------------------------------------------------
\* C4: every pending reminder has scheduledFor strictly greater than the
\* clock value at the moment the record is created.
C4_ScheduledForAfterCreation ==
    \A r \in pendingReminders : r.scheduledFor > r._creationTime

----------------------------------------------------------------------------
\* C5: when the fresh prediction of the sweep is below the threshold of the
\* device, or the fetch failed, the sweep sends no push and records no
\* notification for the reminder, goes on without an error, and deletes it.
C5_DroppedReminderIsDeletedSilently ==
    /\ [][ (sweep.pc = "fetch" /\ sweep' # sweep
              /\ \/ IsNull(sweep'.quality)
                 \/ sweep'.quality.data.qualityPercent
                      < QUALITY_THRESHOLD[sweep.device.minQuality]) =>
                /\ sweep'.pc = "delete"
                /\ sweep'.queue = sweep.queue
                /\ NoSideEffect
         ]_vars
    /\ [][ (sweep.pc = "delete" /\ sweep' # sweep) =>
                /\ Head(sweep.queue) \notin pendingReminders'
                /\ deleteCalls' = Append(deleteCalls, Head(sweep.queue)._id)
                /\ UNCHANGED << pushes, notifications >>
         ]_vars

\* A sweep ended having deleted a reminder of a device that is still there,
\* and no reminder notification was recorded.
C5_witness ==
    /\ sweep.pc = "idle"
    /\ deleteCalls # << >>
    /\ OfType("reminder") = {}
    /\ deviceOps = 1
    /\ DOMAIN devices # {}

----------------------------------------------------------------------------
\* C6: the sweep sends and records a reminder iff the device exists and the
\* prediction fetched for the latitude and longitude of the device record
\* read by the sweep has qualityPercent >= threshold[its minQuality]; what
\* the reminder captured when it was scheduled plays no part.
C6_SweepDecidesOnCurrentRecord ==
    /\ [](sweep.pc \in {"push", "record"} =>
            /\ ~IsNull(sweep.device)
            /\ ~IsNull(sweep.quality)
            /\ sweep.quality.query = << sweep.device.latitude, sweep.device.longitude >>
            /\ sweep.quality.data.qualityPercent
                 >= QUALITY_THRESHOLD[sweep.device.minQuality])
    /\ [][ (sweep.pc = "getDevice" /\ sweep' # sweep) =>
                IF SweepReminder.deviceId \in DOMAIN devices
                THEN /\ sweep'.device = devices[SweepReminder.deviceId]
                     /\ ~isDemoMode => sweep'.pc = "fetch"
                     /\ isDemoMode =>
                          /\ sweep'.quality.query
                               = << sweep'.device.latitude, sweep'.device.longitude >>
                          /\ (sweep'.pc = "push") <=>
                               sweep'.quality.data.qualityPercent
                                 >= QUALITY_THRESHOLD[sweep'.device.minQuality]
                          /\ sweep'.pc \in {"push", "delete"}
                ELSE /\ sweep'.pc = "delete"
                     /\ NoSideEffect
         ]_vars
    /\ [][ (sweep.pc = "fetch" /\ sweep' # sweep) =>
                /\ ~IsNull(sweep'.quality) =>
                       sweep'.quality.query
                         = << sweep.device.latitude, sweep.device.longitude >>
                /\ (sweep'.pc = "push") <=>
                       /\ ~IsNull(sweep'.quality)
                       /\ sweep'.quality.data.qualityPercent
                            >= QUALITY_THRESHOLD[sweep.device.minQuality]
         ]_vars
    /\ [][ /\ (sweep' # sweep /\ ~UNCHANGED << pushes, notifications >>) =>
                sweep.pc \in {"push", "record"}
           /\ (sweep.pc = "push" /\ sweep' # sweep) =>
                /\ Len(pushes') = Len(pushes) + 1
                /\ pushes'[Len(pushes')].to = sweep.device.pushToken
                /\ sweep'.pc = "record"
           /\ (sweep.pc = "record" /\ sweep' # sweep) =>
                /\ Len(notifications') = Len(notifications) + 1
                /\ notifications'[Len(notifications')].deviceId = sweep.device._id
                /\ notifications'[Len(notifications')].qualityPercent
                     = sweep.quality.data.qualityPercent
         ]_vars

\* A reminder scheduled at 41% for threshold Good is dropped at a fresh 41%:
\* the owner raised the threshold to Great in between.
C6_witness ==
    /\ sweep.pc = "delete"
    /\ ~IsNull(sweep.device)
    /\ ~IsNull(sweep.quality)
    /\ sweep.device.minQuality = "Great"
    /\ SweepReminder.qualityPercent >= QUALITY_THRESHOLD["Good"]
    /\ sweep.quality.data.qualityPercent >= QUALITY_THRESHOLD["Good"]

----------------------------------------------------------------------------
\* C7: the scan sends, records or schedules for a device only if the local
\* hour of the device, computed from its timezone when the scan evaluates
\* it, is in 11..16; at any other local hour the device is skipped with no
\* side effect.
C7_OnlyInsideLocalWindow ==
    /\ [](scan.pc \notin {"idle", "gate"} => \E h \in 11 .. 16 : scan.localHour = {h})
    /\ [][ /\ (scan.pc = "gate" /\ scan'.pc = "dedup") =>
                /\ ScanDevice.timezone \in DOMAIN TzOffset
                /\ scan'.localHour = { HourOf(now, ScanDevice.timezone) }
           /\ (scan.pc = "gate" /\ scan' # scan
                 /\ ScanDevice.timezone \in DOMAIN TzOffset
                 /\ HourOf(now, ScanDevice.timezone) \notin 11 .. 16) =>
                /\ scan'.pc \in {"idle", "gate"}
                /\ scan'.queue = Tail(scan.queue)
                /\ NoSideEffect
           /\ ScanWritesOnlyPastGate
         ]_vars

\* The scan is about to evaluate a device with morning alerts on at 10:xx
\* local time.
C7_witness ==
    /\ scan.pc = "gate"
    /\ ScanDevice.notifyMorning
    /\ ScanDevice.timezone \in DOMAIN TzOffset
    /\ HourOf(now, ScanDevice.timezone) = 10

----------------------------------------------------------------------------
\* C8: a device whose timezone is missing or is not a valid name is skipped
\* by the scan with no side effect, also when the UTC hour is in 11..16.
C8_UnusableTimezoneIsSkipped ==
    /\ [](scan.pc \notin {"idle", "gate"} => ScanDevice.timezone \in DOMAIN TzOffset)
    /\ [][ /\ (scan.pc = "gate" /\ scan' # scan
                 /\ ScanDevice.timezone \notin DOMAIN TzOffset) =>
                /\ scan'.pc \in {"idle", "gate"}
                /\ scan'.queue = Tail(scan.queue)
                /\ NoSideEffect
           /\ ScanWritesOnlyPastGate
         ]_vars

\* The scan is about to evaluate a device with morning alerts on and an
\* invalid timezone while the UTC hour is inside the window.
C8_witness ==
    /\ scan.pc = "gate"
    /\ ScanDevice.notifyMorning
    /\ ScanDevice.timezone = "Invalid/Zone"
    /\ (now % 1440) \div 60 \in 11 .. 16

----------------------------------------------------------------------------
\* C9: when the fetch of the scan fails for a device, the scan goes on to the
\* next device with no push, no record, no reminder and no second fetch; the
\* device still passes the dedup check at every later instant of the same
\* local day; and a scan that finds the device with morning alerts on inside
\* 11..16 goes to the dedup check, one that passes the dedup check fetches,
\* and one whose fetch succeeds with a percent at or above the threshold
\* sends the push.
C9_FailedFetchSkipsAndStaysEligible ==
    /\ [][ (scan.pc = "classify" /\ IsNull(scan.quality) /\ scan' # scan) =>
                /\ scan'.pc \in {"idle", "gate"}
                /\ scan'.queue = Tail(scan.queue)
                /\ NoSideEffect
                /\ \A t \in Instants :
                     (/\ t >= now
                      /\ LocalDay(t, ScanDevice.timezone)
                           = LocalDay(now, ScanDevice.timezone)
                      /\ ~hasMorningNotificationToday(ScanDevice._id,
                                                      ScanDevice.timezone, now))
                     => ~hasMorningNotificationToday(ScanDevice._id,
                                                     ScanDevice.timezone, t)
         ]_vars
    /\ [][ /\ (scan.pc = "gate" /\ scan' # scan
                 /\ ScanDevice.notifyMorning
                 /\ ScanDevice.timezone \in DOMAIN TzOffset
                 /\ HourOf(now, ScanDevice.timezone) \in 11 .. 16) =>
                scan'.pc = "dedup"
           /\ (scan.pc = "dedup" /\ scan' # scan
                 /\ ~hasMorningNotificationToday(ScanDevice._id,
                                                 ScanDevice.timezone, now)
                 /\ ~isDemoMode) =>
                scan'.pc = "fetch"
           /\ (scan.pc = "classify" /\ scan' # scan
                 /\ ~IsNull(scan.quality)
                 /\ scan.quality.data.qualityPercent
                      >= QUALITY_THRESHOLD[ScanDevice.minQuality]) =>
                scan'.pc = "push"
         ]_vars

\* The fetch of the scan has failed for the device of the iteration.
C9_witness ==
    /\ scan.pc = "classify"
    /\ IsNull(scan.quality)

----------------------------------------------------------------------------
\* C10: every call of the push transport, failed or not, is followed by the
\* record of the notification and by the same bookkeeping (reminders in the
\* scan, the delete in the sweep); every recorded notification has had
\* exactly one push attempt.
C10_PushFailureChangesNothing ==
    /\ [](Len(pushes) = Len(notifications)
                        + (IF scan.pc = "record" THEN 1 ELSE 0)
                        + (IF sweep.pc = "record" THEN 1 ELSE 0))
    /\ [][ /\ (scan.pc = "push" /\ scan' # scan) =>
                scan'.pc = "record" /\ scan'.queue = scan.queue
           /\ (sweep.pc = "push" /\ sweep' # sweep) =>
                sweep'.pc = "record" /\ sweep'.queue = sweep.queue
           /\ (scan.pc = "record" /\ scan' # scan) =>
                /\ Len(notifications') = Len(notifications) + 1
                /\ notifications'[Len(notifications')].type = "morning"
                /\ notifications'[Len(notifications')].deviceId = ScanDevice._id
                /\ (ScanDevice.notifyHourBefore
                      /\ scan.quality.data.sunsetTime - 60 > now)
                     => scan'.pc = "hour"
                /\ (~(ScanDevice.notifyHourBefore
                        /\ scan.quality.data.sunsetTime - 60 > now)
                      /\ ScanDevice.notifyTenMinBefore
                      /\ scan.quality.data.sunsetTime - 10 > now)
                     => scan'.pc = "tenmin"
           /\ (scan.pc \in {"hour", "tenmin"} /\ scan' # scan) =>
                Cardinality(pendingReminders') = Cardinality(pendingReminders) + 1
           /\ (sweep.pc = "record" /\ sweep' # sweep) =>
                /\ Len(notifications') = Len(notifications) + 1
                /\ notifications'[Len(notifications')].type = "reminder"
                /\ sweep'.pc = "delete"
                /\ sweep'.queue = sweep.queue
         ]_vars

\* The transport failed on the morning push; the notification is recorded
\* and the scan is inserting a reminder.
C10_witness ==
    /\ scan.pc \in {"hour", "tenmin"}
    /\ ~scan.pushOk
    /\ \E i \in OfType("morning") :
           notifications[i].deviceId = ScanDevice._id /\ notifications[i].sentAt <= now

----------------------------------------------------------------------------
\* C11: a run of either job works through everything it read at its start.
\* The scan's work list is all devices in the table when it starts, the
\* sweep's is the due reminders; a run leaves its current document only for
\* the next one of the list, it ends only on the last one, and the sweep
\* leaves a reminder only by deleting it.  A failed fetch, a failed push and
\* a missing device end the iteration, never the run.
C11_BatchIsolation ==
    /\ [](/\ (scan.pc = "idle") <=> (scan.queue = << >>)
          /\ (sweep.pc = "idle") <=> (sweep.queue = << >>))
    /\ [][ /\ (scan.pc = "idle" /\ scan' # scan) => scan'.queue = getAllDevices
           /\ (scan.pc # "idle" /\ scan' # scan) =>
                /\ scan'.queue \in {scan.queue, Tail(scan.queue)}
                /\ (scan'.pc = "idle") => Len(scan.queue) = 1
           /\ (sweep.pc = "idle" /\ sweep' # sweep) => sweep'.queue = getDueReminders(now)
           /\ (sweep.pc # "idle" /\ sweep' # sweep) =>
                /\ sweep'.queue \in {sweep.queue, Tail(sweep.queue)}
                /\ (sweep'.pc = "idle") => Len(sweep.queue) = 1
                /\ (sweep'.queue # sweep.queue) =>
                     /\ Len(deleteCalls') = Len(deleteCalls) + 1
                     /\ deleteCalls'[Len(deleteCalls')] = Head(sweep.queue)._id
           /\ (scan.pc = "classify" /\ IsNull(scan.quality) /\ scan' # scan) =>
                scan'.queue = Tail(scan.queue)
           /\ (scan.pc = "push" /\ scan' # scan) => scan'.pc = "record"
           /\ (sweep.pc = "push" /\ sweep' # sweep) => sweep'.pc = "record"
         ]_vars

\* The fetch failed for the first of two devices of the scan's work list.
C11_witness ==
    /\ scan.pc = "classify"
    /\ IsNull(scan.quality)
    /\ Len(scan.queue) = 2

----------------------------------------------------------------------------
\* C12: when the device of a due reminder no longer exists, the sweep sends
\* no push and records no notification for it, and deletes the reminder; the
\* deleted reminder is in no later sweep's work list.
C12_OrphanReminderIsDeleted ==
    /\ [](\A k \in 1 .. Len(sweep.queue) :
             sweep.queue[k]._id \notin SeqRange(deleteCalls))
    /\ [][ /\ (sweep.pc = "getDevice" /\ sweep' # sweep
                 /\ SweepReminder.deviceId \notin DOMAIN devices) =>
                /\ sweep'.pc = "delete"
                /\ sweep'.queue = sweep.queue
                /\ IsNull(sweep'.device)
                /\ NoSideEffect
           /\ (sweep.pc = "delete" /\ IsNull(sweep.device) /\ sweep' # sweep) =>
                /\ UNCHANGED << pushes, notifications >>
                /\ pendingReminders' = pendingReminders \ {SweepReminder}
                /\ SweepReminder \notin pendingReminders'
           /\ (sweep.pc \in {"push", "record"}) => ~IsNull(sweep.device)
         ]_vars

\* A sweep has finished after deleting the reminder of a removed device:
\* nothing was sent or recorded for it.
C12_witness ==
    /\ sweep.pc = "idle"
    /\ DOMAIN devices = {}
    /\ Len(deleteCalls) = 1
    /\ pendingReminders = {}
    /\ OfType("reminder") = {}
    /\ \A i \in 1 .. Len(pushes) : pushes[i].kind = "morning"

----------------------------------------------------------------------------
\* C13: nothing keeps two overlapping runs of the Reminder Sweep apart.  A
\* run that starts while another is under way reads every due reminder still
\* in the store, those the other run is working on included; each run sends,
\* records and deletes for what it read, whether or not the other run has
\* deleted the reminder in between.  So a reminder may be dispatched twice
\* (never more often than there are runs), with two reminder notifications
\* and two delete calls on the same record.
C13_OverlappingSweepsShareReminders ==
    /\ [](/\ \A id \in SeqRange(deleteCalls) :
                Cardinality({i \in 1 .. Len(deleteCalls) : deleteCalls[i] = id}) <= 2
          /\ Cardinality(OfType("reminder")) <= 2 * (nextReminderId - 1))
    /\ [][ /\ (otherSweep.pc = "idle" /\ otherSweep' # otherSweep) =>
                /\ SeqRange(otherSweep'.queue)
                     = {r \in pendingReminders : r.scheduledFor <= now}
                /\ \A k \in 1 .. Len(sweep.queue) :
                     sweep.queue[k] \in pendingReminders =>
                       sweep.queue[k] \in SeqRange(otherSweep'.queue)
           /\ (sweep.pc = "fetch" /\ sweep' # sweep) =>
                ((sweep'.pc = "push") <=>
                   /\ ~IsNull(sweep'.quality)
                   /\ sweep'.quality.data.qualityPercent
                        >= QUALITY_THRESHOLD[sweep.device.minQuality])
           /\ (otherSweep.pc = "fetch" /\ otherSweep' # otherSweep) =>
                ((otherSweep'.pc = "push") <=>
                   /\ ~IsNull(otherSweep'.quality)
                   /\ otherSweep'.quality.data.qualityPercent
                        >= QUALITY_THRESHOLD[otherSweep.device.minQuality])
           /\ (otherSweep.pc = "push" /\ otherSweep' # otherSweep) =>
                Len(pushes') = Len(pushes) + 1 /\ otherSweep'.pc = "record"
           /\ (otherSweep.pc = "record" /\ otherSweep' # otherSweep) =>
                /\ Len(notifications') = Len(notifications) + 1
                /\ notifications'[Len(notifications')].type = "reminder"
                /\ otherSweep'.pc = "delete"
           /\ (otherSweep.pc = "delete" /\ otherSweep' # otherSweep) =>
                deleteCalls' = Append(deleteCalls, OtherSweepReminder._id)
         ]_vars

\* The only reminder ever created has been pushed twice, recorded twice as
\* a reminder notification and passed to deleteReminder twice.
C13_witness ==
    /\ nextReminderId = 2
    /\ deleteCalls = << 1, 1 >>
    /\ Cardinality(OfType("reminder")) = 2
    /\ Cardinality({i \in 1 .. Len(pushes) : pushes[i].kind = "hour"}) = 2
    /\ \A i, j \in OfType("reminder") :
           /\ notifications[i].deviceId = notifications[j].deviceId
           /\ notifications[i].sunsetTime = notifications[j].sunsetTime

----------------------------------------------------------------------------
\* The levels in increasing order, and the level the threshold table gives a
\* percent: the highest level whose threshold is at most the percent.
QualityRank ==
    [q \in {"Poor", "Fair", "Good", "Great", "Excellent"} |->
        CASE q = "Poor" -> 0
          [] q = "Fair" -> 1
          [] q = "Good" -> 2
          [] q = "Great" -> 3
          [] q = "Excellent" -> 4]

LabelOf(qualityPercent) ==
    IF \A q \in Levels : QUALITY_THRESHOLD[q] > qualityPercent
    THEN "Poor"
    ELSE CHOOSE q \in Levels :
            /\ QUALITY_THRESHOLD[q] <= qualityPercent
            /\ \A o \in Levels :
                  QUALITY_THRESHOLD[o] <= qualityPercent => QualityRank[o] <= QualityRank[q]

\* The applications of a function in the log
CallsOf(fn) == { i \in 1 .. Len(calls) : calls[i].fn = fn }

----------------------------------------------------------------------------
\* C14: the threshold comparison is monotonic in the percent; the table is
\* strictly increasing (21 < 41 < 61 < 81), so a percent that meets a level
\* meets every lower level; and a percent equal to the threshold of a level
\* meets it (the comparison is >=).
C14_ThresholdIsMonotonic ==
    /\ QUALITY_THRESHOLD["Fair"] = 21
    /\ QUALITY_THRESHOLD["Good"] = 41
    /\ QUALITY_THRESHOLD["Great"] = 61
    /\ QUALITY_THRESHOLD["Excellent"] = 81
    /\ \A i \in CallsOf("MeetsThreshold") :
          LET p == calls[i].qualityPercent
              L == calls[i].minQuality
          IN  /\ calls[i].result <=> ~(p < QUALITY_THRESHOLD[L])
              /\ p = QUALITY_THRESHOLD[L] => calls[i].result
              /\ calls[i].result =>
                   /\ \A q \in Percents : q >= p => MeetsThreshold(q, L)
                   /\ \A lower \in Levels :
                        QualityRank[lower] < QualityRank[L] => MeetsThreshold(p, lower)
              /\ ~calls[i].result =>
                   \A q \in Percents : q <= p => ~MeetsThreshold(q, L)

\* The comparison was applied to 41% and Good, and answered that it meets.
C14_witness ==
    /\ calls # << >>
    /\ calls[1].fn = "MeetsThreshold"
    /\ calls[1].minQuality = "Good"
    /\ calls[1].qualityPercent = 41
    /\ calls[1].result

----------------------------------------------------------------------------
\* C15: every prediction the jobs compare with a threshold, one of the
\* offline generator included, carries the label the threshold table gives
\* its percent (the highest level whose threshold is at most the percent,
\* Poor below 21); so the label of a prediction being pushed to a device is
\* at least the minQuality of the device.
C15_LabelAgreesWithThresholdTable ==
    /\ (scan.pc \in {"classify", "push"} /\ ~IsNull(scan.quality)) =>
          scan.quality.data.quality = LabelOf(scan.quality.data.qualityPercent)
    /\ (sweep.pc \in {"push", "delete"} /\ ~IsNull(sweep.quality)) =>
          sweep.quality.data.quality = LabelOf(sweep.quality.data.qualityPercent)
    /\ scan.pc = "push" =>
          QualityRank[scan.quality.data.quality] >= QualityRank[ScanDevice.minQuality]
    /\ sweep.pc = "push" =>
          QualityRank[sweep.quality.data.quality] >= QualityRank[sweep.device.minQuality]

----------------------------------------------------------------------------
\* C16: in demo mode, for a device with minQuality Good (as registered, its
\* preferences never changed) the scan records a morning notification, and
\* creates the hour reminder, only when the generated tier is Good or Great;
\* for a tier Poor or Fair it creates neither.
C16_DemoScanRecordsOnlyGoodOrGreat ==
    (isDemoMode /\ deviceOps = 1) =>
        /\ \A i \in OfType("morning") :
              (\E id \in DOMAIN devices :
                   id = notifications[i].deviceId /\ devices[id].minQuality = "Good")
                => notifications[i].quality \in {"Good", "Great"}
        /\ \A r \in pendingReminders : r.quality \in {"Good", "Great"}

----------------------------------------------------------------------------
\* C17: two calls of the offline generator with the same latitude and
\* timezone, made at two instants of the same calendar day of the server,
\* return the same prediction, whatever the calendar day of the device's
\* timezone is at either instant.
C17_GeneratorIsStableWithinADay ==
    \A i, j \in CallsOf("generateMockSunset") :
        (/\ calls[i].latitude = calls[j].latitude
         /\ calls[i].timezone = calls[j].timezone
         /\ calls[i].at \div MinutesPerDay = calls[j].at \div MinutesPerDay)
        => calls[i].result = calls[j].result

----------------------------------------------------------------------------
\* The table after a register or updateLocation for the token: a known token
\* has its document patched in place, an unknown one gets exactly one new
\* document; every other document is untouched.
UpsertsToken(pushToken) ==
    IF ByPushToken(pushToken) # {}
    THEN /\ DOMAIN devices' = DOMAIN devices
         /\ \A id \in DOMAIN devices :
              /\ devices'[id].pushToken = devices[id].pushToken
              /\ id \notin ByPushToken(pushToken) => devices'[id] = devices[id]
    ELSE \E new \in DeviceIds \ DOMAIN devices :
              /\ DOMAIN devices' = DOMAIN devices \cup {new}
              /\ devices'[new].pushToken = pushToken
              /\ \A id \in DOMAIN devices : devices'[id] = devices[id]

\* C18: at most one device document per pushToken, after any sequence of
\* register, updateLocation and updatePreferences calls; register and
\* updateLocation patch the document of a known token in place and insert
\* exactly one document for an unknown token; updatePreferences and the two
\* jobs insert and delete none; a document only ever disappears by a removal
\* from outside the core.
C18_OneDevicePerPushToken ==
    /\ [](\A d1, d2 \in DOMAIN devices :
             devices[d1].pushToken = devices[d2].pushToken => d1 = d2)
    /\ [][ /\ \A tok \in Tokens :
                /\ \A a \in RegisterArgs :
                     register(tok, a[1], a[2]) => UpsertsToken(tok)
                /\ \A a \in UpdateLocationArgs :
                     updateLocation(tok, a[1], a[2]) => UpsertsToken(tok)
                /\ \A args \in PreferenceArgs :
                     updatePreferences(tok, args) =>
                       /\ DOMAIN devices' = DOMAIN devices
                       /\ \A id \in DOMAIN devices :
                            devices'[id].pushToken = devices[id].pushToken
           /\ deviceOps' = deviceOps => devices' = devices
           /\ ~(DOMAIN devices \subseteq DOMAIN devices') =>
                \E id \in DeviceIds : removeDevice(id)
         ]_vars

\* A device registered in Pacific/Kiritimati has been moved by updateLocation:
\* still one document, the first ever inserted, with its timezone kept.
C18_witness ==
    /\ deviceOps = 2
    /\ nextDeviceId = 2
    /\ DOMAIN devices = {1}
    /\ devices[1].latitude = fuzzLocation(Away[1])
    /\ devices[1].timezone = "Pacific/Kiritimati"

----------------------------------------------------------------------------
\* The pushes of the kinds in the log of the transport
PushesOf(kinds) == { i \in 1 .. Len(pushes) : pushes[i].kind \in kinds }

\* C19: the notification table is append-only: no record is changed or
\* removed.  Each push attempt of the scan is followed by exactly one record
\* of type morning, each push attempt of the sweep by exactly one of type
\* reminder, with the sunsetTime, quality and qualityPercent of the
\* prediction the push was decided on; no record is appended otherwise.
C19_NotificationsAreAppendOnly ==
    /\ [](/\ Cardinality(PushesOf({"morning"}))
               = Cardinality(OfType("morning")) + (IF scan.pc = "record" THEN 1 ELSE 0)
          /\ Cardinality(PushesOf({"hour", "tenmin"}))
               = Cardinality(OfType("reminder")) + (IF sweep.pc = "record" THEN 1 ELSE 0)
          /\ \A i \in 1 .. Len(notifications) :
               notifications[i].type \in {"morning", "reminder"})
    /\ [][ /\ Len(notifications') >= Len(notifications)
           /\ \A i \in 1 .. Len(notifications) : notifications'[i] = notifications[i]
           /\ notifications' # notifications =>
                /\ Len(notifications') = Len(notifications) + 1
                /\ \/ scan.pc = "record" /\ scan' # scan
                   \/ sweep.pc = "record" /\ sweep' # sweep
           /\ (scan.pc = "push" /\ scan' # scan) =>
                scan'.pc = "record" /\ scan'.quality = scan.quality
           /\ (sweep.pc = "push" /\ sweep' # sweep) =>
                sweep'.pc = "record" /\ sweep'.quality = sweep.quality
           /\ (scan.pc = "record" /\ scan' # scan) =>
                notifications' = Append(notifications,
                    [ deviceId |-> ScanDevice._id,
                      sentAt |-> now,
                      type |-> "morning",
                      sunsetTime |-> scan.quality.data.sunsetTime,
                      quality |-> scan.quality.data.quality,
                      qualityPercent |-> scan.quality.data.qualityPercent ])
           /\ (sweep.pc = "record" /\ sweep' # sweep) =>
                notifications' = Append(notifications,
                    [ deviceId |-> sweep.device._id,
                      sentAt |-> now,
                      type |-> "reminder",
                      sunsetTime |-> sweep.quality.data.sunsetTime,
                      quality |-> sweep.quality.data.quality,
                      qualityPercent |-> sweep.quality.data.qualityPercent ])
         ]_vars

\* Both jobs are done: one morning push and one reminder push were made,
\* and the table holds the morning record followed by the reminder record.
C19_witness ==
    /\ scan.pc = "idle"
    /\ sweep.pc = "idle"
    /\ Len(pushes) = 2
    /\ Len(notifications) = 2
    /\ notifications[1].type = "morning"
    /\ notifications[2].type = "reminder"

----------------------------------------------------------------------------
\* The reminders a step inserts
NewReminders == pendingReminders' \ pendingReminders

\* C20: after the morning notification is recorded, the hour reminder is
\* created iff notifyHourBefore is on and sunset - 60 min is after the clock,
\* the ten-minute reminder iff notifyTenMinBefore is on and sunset - 10 min
\* is after the clock; neither decision reads the other toggle or depends on
\* the other reminder; an iteration creates at most one of each kind, the
\* hour one first, and nothing else creates reminders.
C20_ReminderKindsAreIndependent ==
    [][ /\ (scan.pc = "record" /\ scan' # scan) =>
             /\ (scan'.pc = "hour") <=>
                  /\ ScanDevice.notifyHourBefore
                  /\ scan.quality.data.sunsetTime - 60 > now
             /\ scan'.pc # "hour" =>
                  ((scan'.pc = "tenmin") <=>
                     /\ ScanDevice.notifyTenMinBefore
                     /\ scan.quality.data.sunsetTime - 10 > now)
             /\ NewReminders = {}
        /\ (scan.pc = "hour" /\ scan' # scan) =>
             /\ \E r \in NewReminders :
                  /\ NewReminders = {r}
                  /\ r.reminderType = "hour"
                  /\ r.deviceId = ScanDevice._id
                  /\ r.scheduledFor = scan.quality.data.sunsetTime - 60
             /\ (scan'.pc = "tenmin") <=>
                  /\ ScanDevice.notifyTenMinBefore
                  /\ scan.quality.data.sunsetTime - 10 > now
             /\ scan'.pc = "tenmin" => scan'.queue = scan.queue
             /\ scan'.pc # "tenmin" => scan'.queue = Tail(scan.queue)
        /\ (scan.pc = "tenmin" /\ scan' # scan) =>
             /\ \E r \in NewReminders :
                  /\ NewReminders = {r}
                  /\ r.reminderType = "tenmin"
                  /\ r.deviceId = ScanDevice._id
                  /\ r.scheduledFor = scan.quality.data.sunsetTime - 10
             /\ scan'.queue = Tail(scan.queue)
        /\ NewReminders # {} => (scan.pc \in {"hour", "tenmin"} /\ scan' # scan)
      ]_vars

\* One iteration of the scan has created both reminders of a device: the
\* table holds its only morning record, an hour and a ten-minute reminder.
C20_witness ==
    /\ Len(notifications) = 1
    /\ \E h, t \in pendingReminders :
          /\ h.reminderType = "hour"
          /\ t.reminderType = "tenmin"
          /\ h.deviceId = notifications[1].deviceId
          /\ t.deviceId = notifications[1].deviceId
          /\ h.scheduledFor = notifications[1].sunsetTime - 60
          /\ t.scheduledFor = notifications[1].sunsetTime - 10

----------------------------------------------------------------------------
\* The morning records of a device that carry the snapshot of a prediction
\* and were written at or before instant t
MorningRecordsOf(deviceId, sunsetTime, quality, qualityPercent, t) ==
    { i \in OfType("morning") :
        /\ notifications[i].deviceId = deviceId
        /\ notifications[i].sunsetTime = sunsetTime
        /\ notifications[i].quality = quality
        /\ notifications[i].qualityPercent = qualityPercent
        /\ notifications[i].sentAt <= t }

\* C21: reminders are created only by the scan, directly after the morning
\* push and record of the same device iteration.  Every stored reminder has a
\* morning record of its device, written no later than the reminder, with
\* the same sunsetTime, quality and qualityPercent; the scan inserts a
\* reminder only from the steps that follow the record of the iteration; a
\* skip (preference off, hour gate, dedup, failed fetch, below threshold)
\* creates none; and the sweep creates none.
C21_RemindersFollowMorningRecord ==
    /\ [](/\ \A r \in pendingReminders :
               MorningRecordsOf(r.deviceId, r.sunsetTime, r.quality,
                                r.qualityPercent, r._creationTime) # {}
          /\ scan.pc \in {"hour", "tenmin"} =>
               MorningRecordsOf(ScanDevice._id, scan.quality.data.sunsetTime,
                                scan.quality.data.quality,
                                scan.quality.data.qualityPercent, now) # {})
    /\ [][ /\ NewReminders # {} =>
                /\ scan.pc \in {"hour", "tenmin"}
                /\ scan' # scan
                /\ sweep' = sweep
                /\ \A r \in NewReminders :
                     /\ r.deviceId = ScanDevice._id
                     /\ r._creationTime = now
                     /\ r.sunsetTime = scan.quality.data.sunsetTime
                     /\ r.quality = scan.quality.data.quality
                     /\ r.qualityPercent = scan.quality.data.qualityPercent
           /\ (scan'.pc = "hour" /\ scan' # scan) =>
                scan.pc = "record" /\ scan'.queue = scan.queue
           /\ (scan'.pc = "tenmin" /\ scan' # scan) =>
                scan.pc \in {"record", "hour"} /\ scan'.queue = scan.queue
           /\ (scan'.pc = "record" /\ scan' # scan) => scan.pc = "push"
           /\ (scan.pc \in {"gate", "dedup", "fetch", "classify"} /\ scan' # scan) =>
                /\ NoSideEffect
                /\ scan'.pc \notin {"record", "hour", "tenmin"}
           /\ sweep' # sweep => NewReminders = {}
         ]_vars

\* A scan over two devices has ended: it skipped the first and notified the
\* second, whose reminder is stored with the snapshot of its morning record.
C21_witness ==
    /\ scan.pc = "idle"
    /\ DOMAIN devices = {1, 2}
    /\ Len(notifications) = 1
    /\ notifications[1].type = "morning"
    /\ notifications[1].deviceId = 2
    /\ \E r \in pendingReminders :
          /\ pendingReminders = {r}
          /\ r.deviceId = 2
          /\ r.sunsetTime = notifications[1].sunsetTime
          /\ r.qualityPercent = notifications[1].qualityPercent
          /\ r._creationTime >= notifications[1].sentAt

----------------------------------------------------------------------------
\* The morning records of the device whose sentAt is on the local calendar
\* day of instant t in the timezone
MorningsOfLocalDay(deviceId, timezone, t) ==
    { i \in OfType("morning") :
        /\ notifications[i].deviceId = deviceId
        /\ LocalDay(notifications[i].sentAt, timezone) = LocalDay(t, timezone) }

\* C22: for every timezone offset, when every morning record of the device
\* was sent on an earlier local calendar day than the current one, the dedup
\* step does not skip the device: the scan goes on to the prediction.
C22_PreviousDayAlertDoesNotSuppress ==
    [][ (/\ scan.pc = "dedup"
         /\ scan' # scan
         /\ ScanDevice.timezone \in DOMAIN TzOffset
         /\ MorningsOfLocalDay(ScanDevice._id, ScanDevice.timezone, now) = {}) =>
            /\ scan'.pc \in {"fetch", "classify"}
            /\ scan'.queue = scan.queue
      ]_vars

----------------------------------------------------------------------------
\* The number of records of the device written after the record at position i
NewerRecords(i) ==
    Cardinality({ j \in 1 .. Len(notifications) :
                    j > i /\ notifications[j].deviceId = notifications[i].deviceId })

\* The morning records of the device the dedup query finds at instant t: those
\* among the 5 most recent records of the device, of any type, sent at or
\* after 00:00Z of the current calendar date of the timezone
MorningsSeen(deviceId, timezone, t) ==
    { i \in OfType("morning") :
        /\ notifications[i].deviceId = deviceId
        /\ notifications[i].sentAt >= LocalDay(t, timezone) * 1440
        /\ NewerRecords(i) < 5 }

----------------------------------------------------------------------------
\* C24: for every date, every hour:minute and every timezone with an offset
\* between -12h and +14h, the instant localTimeToUTC returns, displayed in
\* the timezone, has the calendar date and the wall-clock time it was given.
C24_LocalTimeRoundTrip ==
    \A i \in CallsOf("localTimeToUTC") :
        /\ LocalMinutes(calls[i].result, calls[i].timezone) \div MinutesPerDay
             = calls[i].dateStr
        /\ LocalMinutes(calls[i].result, calls[i].timezone) % MinutesPerDay
             = calls[i].hour * MinutesPerHour + calls[i].minute

----------------------------------------------------------------------------
\* The reminder with the _id is in the store; it is due
ReminderIds == 1 .. MaxReminders
Stored(id) == \E r \in pendingReminders : r._id = id
Due(id) == \E r \in pendingReminders : r._id = id /\ r.scheduledFor <= now
LastInstant == CHOOSE t \in Instants : \A o \in Instants : o <= t

\* C25: while the sweep keeps being triggered and its runs complete, every
\* reminder is eventually removed.  A sweep that starts reads every reminder
\* whose fire time has come; a reminder it read leaves its work list only by
\* being deleted; every run ends; so a due reminder is eventually deleted
\* and never stored again, and a reminder stays in the store only as long as
\* the clock has not reached its fire time.
C25_EveryReminderIsEventuallyRemoved ==
    /\ [][ /\ (sweep.pc = "idle" /\ sweep' # sweep) =>
                 \A r \in pendingReminders :
                     r.scheduledFor <= now => r \in SeqRange(sweep'.queue)
           /\ (sweep.pc # "idle" /\ sweep'.queue # sweep.queue) =>
                 /\ sweep'.queue = Tail(sweep.queue)
                 /\ Head(sweep.queue) \notin pendingReminders'
           /\ \A id \in ReminderIds :
                 (id < nextReminderId /\ ~Stored(id)) => ~Stored(id)'
         ]_vars
    /\ (sweep.pc # "idle") ~> (sweep.pc = "idle")
    /\ \A id \in ReminderIds :
          /\ Due(id) ~> ~Stored(id)
          /\ Stored(id) ~> (~Stored(id) \/ (now = LastInstant /\ ~Due(id)))

\* A reminder was created before its fire time, the clock passed the fire
\* time, and a sweep that started after it has deleted the reminder.
C25_witness ==
    /\ sweep.pc = "idle"
    /\ nextReminderId = 2
    /\ deleteCalls = << 1 >>
    /\ pendingReminders = {}
    /\ \E i \in OfType("morning") :
          /\ notifications[i].sentAt < notifications[i].sunsetTime - 60
          /\ now >= notifications[i].sunsetTime - 60

----------------------------------------------------------------------------
\* C26: the sweep never fires a reminder early.  A reminder with scheduledFor
\* after the clock when the sweep reads the due reminders is not in the work
\* list of the run, and the work list never grows, also when the reminder
\* becomes due while the run is under way; a step of the sweep removes no
\* reminder but the one at the head of its work list, and changes none; so
\* every reminder notification is recorded at an instant at or after the
\* scheduledFor of its reminder.
C26_SweepNeverFiresEarly ==
    /\ [](\A k \in 1 .. Len(sweep.queue) : sweep.queue[k].scheduledFor <= now)
    /\ [][ /\ (sweep.pc = "idle" /\ sweep' # sweep) =>
                 \A r \in pendingReminders :
                     r.scheduledFor > now => r \notin SeqRange(sweep'.queue)
           /\ (sweep.pc # "idle" /\ sweep' # sweep) =>
                 SeqRange(sweep'.queue) \subseteq SeqRange(sweep.queue)
           /\ sweep' # sweep =>
                 /\ pendingReminders' \subseteq pendingReminders
                 /\ \A r \in pendingReminders :
                      r \notin pendingReminders' =>
                        /\ sweep.pc = "delete"
                        /\ r = Head(sweep.queue)
                        /\ r.scheduledFor <= now
           /\ (sweep.pc \in {"push", "record"} /\ sweep' # sweep) =>
                 Head(sweep.queue).scheduledFor <= now
           /\ (sweep.pc = "record" /\ sweep' # sweep) =>
                 /\ notifications'[Len(notifications')].type = "reminder"
                 /\ notifications'[Len(notifications')].sentAt
                      >= Head(sweep.queue).scheduledFor
         ]_vars

\* A sweep that read the due hour reminder is still under way when the
\* ten-minute reminder, not due when the run started, becomes due: it is in
\* the store and not in the work list of the run.
C26_witness ==
    /\ sweep.pc \in {"push", "record", "delete"}
    /\ Len(sweep.queue) = 1
    /\ Head(sweep.queue).reminderType = "hour"
    /\ \E r \in pendingReminders :
          /\ r.reminderType = "tenmin"
          /\ r.scheduledFor <= now
          /\ r.scheduledFor > Head(sweep.queue).scheduledFor
          /\ r \notin SeqRange(sweep.queue)

----------------------------------------------------------------------------
\* C27: also when two runs of the Morning Scan overlap, a device registered
\* once at UTC-12 and never touched again has at most one notification of
\* type morning per local calendar day.
C27_OneMorningPerLocalDayUnderOverlap ==
    \A d \in DOMAIN devices :
        (deviceOps = 1 /\ devices[d].timezone = "Etc/GMT+12") =>
            \A i, j \in OfType("morning") :
                (/\ i < j
                 /\ notifications[i].deviceId = d
                 /\ notifications[j].deviceId = d)
                => LocalDay(notifications[i].sentAt, "Etc/GMT+12")
                     # LocalDay(notifications[j].sentAt, "Etc/GMT+12")

----------------------------------------------------------------------------
\* C28: every reminder the scan creates has scheduledFor equal to the instant
\* of the sunsetTime it stores, minus exactly 60 minutes for kind hour and
\* minus exactly 10 minutes for kind tenmin, so scheduledFor is before the
\* stored sunset; the hour and the ten-minute reminder of one iteration carry
\* the same snapshot, and the hour one is due exactly 50 minutes before the
\* ten-minute one.
C28_ScheduledForIsSunsetMinusLead ==
    /\ [](/\ \A r \in pendingReminders :
               /\ r.reminderType \in {"hour", "tenmin"}
               /\ r.reminderType = "hour" => r.scheduledFor = r.sunsetTime - 60
               /\ r.reminderType = "tenmin" => r.scheduledFor = r.sunsetTime - 10
               /\ r.scheduledFor < r.sunsetTime
          /\ \A h, t \in pendingReminders :
               (/\ h.reminderType = "hour"
                /\ t.reminderType = "tenmin"
                /\ h.deviceId = t.deviceId
                /\ h.sunsetTime = t.sunsetTime)
               => t.scheduledFor - h.scheduledFor = 50)
    /\ [][ /\ (scan.pc = "hour" /\ scan' # scan) =>
                 /\ \A r \in NewReminders :
                      /\ r.reminderType = "hour"
                      /\ r.sunsetTime = scan.quality.data.sunsetTime
                      /\ r.scheduledFor = scan.quality.data.sunsetTime - 60
                 /\ scan'.pc = "tenmin" =>
                      (scan'.quality = scan.quality /\ scan'.queue = scan.queue)
           /\ (scan.pc = "tenmin" /\ scan' # scan) =>
                 \A r \in NewReminders :
                      /\ r.reminderType = "tenmin"
                      /\ r.sunsetTime = scan.quality.data.sunsetTime
                      /\ r.scheduledFor = scan.quality.data.sunsetTime - 10
           /\ \A r \in pendingReminders :
                 r \in pendingReminders' \/ (\A o \in pendingReminders' : o._id # r._id)
         ]_vars

\* A finished scan has left the two reminders of one iteration in the store:
\* created at the same instant from the same snapshot, due 50 minutes apart.
C28_witness ==
    /\ scan.pc = "idle"
    /\ Cardinality(pendingReminders) = 2
    /\ \E h, t \in pendingReminders :
          /\ h.reminderType = "hour"
          /\ t.reminderType = "tenmin"
          /\ h._creationTime = t._creationTime
          /\ h.sunsetTime = t.sunsetTime
          /\ t.scheduledFor = h.scheduledFor + 50
          /\ t.scheduledFor < t.sunsetTime

----------------------------------------------------------------------------
\* The step leaves the preferences of the document alone
KeepsPreferences(id) ==
    /\ devices'[id].notifyMorning = devices[id].notifyMorning
    /\ devices'[id].notifyHourBefore = devices[id].notifyHourBefore
    /\ devices'[id].notifyTenMinBefore = devices[id].notifyTenMinBefore
    /\ devices'[id].minQuality = devices[id].minQuality

\* The step changes no document but the one with the id, and adds none
OnlyChanges(id) ==
    /\ DOMAIN devices' = DOMAIN devices
    /\ \A other \in DOMAIN devices : other # id => devices'[other] = devices[other]
    /\ devices'[id]._id = devices[id]._id
    /\ devices'[id].pushToken = devices[id].pushToken

\* The step inserts one document, for the token, with the default preferences
InsertsWithDefaults(pushToken) ==
    \E new \in DeviceIds \ DOMAIN devices :
        /\ DOMAIN devices' = DOMAIN devices \cup {new}
        /\ \A id \in DOMAIN devices : devices'[id] = devices[id]
        /\ devices'[new].pushToken = pushToken
        /\ devices'[new].notifyMorning
        /\ devices'[new].notifyHourBefore
        /\ ~devices'[new].notifyTenMinBefore
        /\ devices'[new].minQuality = "Good"

\* C29: register and updateLocation on a known token change only latitude,
\* longitude, timezone (updateLocation: only when a timezone is supplied) and
\* lastLocationUpdate; notifyMorning, notifyHourBefore, notifyTenMinBefore and
\* minQuality stay as they are.  The defaults (morning on, hour reminder on,
\* minQuality Good) are written only when the document is inserted.
C29_ReRegistrationKeepsPreferences ==
    [][ \A tok \in Tokens :
          /\ \A a \in RegisterArgs :
               register(tok, a[1], a[2]) =>
                 IF ByPushToken(tok) # {}
                 THEN LET id == FirstByPushToken(tok)
                      IN  /\ OnlyChanges(id)
                          /\ KeepsPreferences(id)
                          /\ devices'[id].timezone = a[2]
                          /\ devices'[id].lastLocationUpdate = now
                          /\ devices'[id].latitude \in { a[1][1] - 5 + k : k \in 0 .. 10 }
                          /\ devices'[id].longitude \in { a[1][2] - 5 + k : k \in 0 .. 10 }
                 ELSE InsertsWithDefaults(tok)
          /\ \A a \in UpdateLocationArgs :
               updateLocation(tok, a[1], a[2]) =>
                 IF ByPushToken(tok) # {}
                 THEN LET id == FirstByPushToken(tok)
                      IN  /\ OnlyChanges(id)
                          /\ KeepsPreferences(id)
                          /\ a[2] = {} => devices'[id].timezone = devices[id].timezone
                          /\ (a[2] # {} /\ a[2] # {""}) => devices'[id].timezone \in a[2]
                          /\ devices'[id].lastLocationUpdate = now
                          /\ devices'[id].latitude \in { a[1][1] - 5 + k : k \in 0 .. 10 }
                          /\ devices'[id].longitude \in { a[1][2] - 5 + k : k \in 0 .. 10 }
                 ELSE InsertsWithDefaults(tok)
      ]_vars

\* A device whose owner had turned morning alerts off and raised the
\* threshold to Great has registered again from another timezone: the
\* document has the new timezone and the owner's preferences.
C29_witness ==
    /\ deviceOps = 1
    /\ DOMAIN devices = {1}
    /\ devices[1].timezone = "Pacific/Kiritimati"
    /\ devices[1].lastLocationUpdate = now
    /\ ~devices[1].notifyMorning
    /\ ~devices[1].notifyHourBefore
    /\ devices[1].notifyTenMinBefore
    /\ devices[1].minQuality = "Great"

----------------------------------------------------------------------------
\* C30: updatePreferences for a token with no document throws "Device not
\* found" and changes nothing in the store: no document is created, unlike
\* updateLocation, which inserts one.  For a known token it changes exactly
\* the preference fields supplied and leaves every other field (the omitted
\* preferences, the location, the timezone, lastLocationUpdate) unchanged.
C30_UpdatePreferencesTouchesOnlySupplied ==
    [][ \A tok \in Tokens :
          /\ \A args \in PreferenceArgs :
               updatePreferences(tok, args) =>
                 IF ByPushToken(tok) = {}
                 THEN /\ lastError' = "Device not found"
                      /\ UNCHANGED << devices, nextDeviceId, notifications,
                                      pendingReminders >>
                 ELSE LET id == FirstByPushToken(tok)
                      IN  /\ lastError' = "none"
                          /\ OnlyChanges(id)
                          /\ \A f \in DOMAIN devices[id] :
                               devices'[id][f] = IF f \in DOMAIN args THEN args[f]
                                                 ELSE devices[id][f]
          /\ \A a \in UpdateLocationArgs :
               (updateLocation(tok, a[1], a[2]) /\ ByPushToken(tok) = {}) =>
                 /\ lastError' = "none"
                 /\ Cardinality(DOMAIN devices') = Cardinality(DOMAIN devices) + 1
      ]_vars

\* updatePreferences was called for a token that has no document while
\* another device is registered: the call threw, and the table still holds
\* that one document only.
C30_witness ==
    /\ lastError = "Device not found"
    /\ deviceOps = 1
    /\ DOMAIN devices = {1}
    /\ nextDeviceId = 2
    /\ devices[1].pushToken = TokenNames[1]
    /\ devices[1].minQuality = "Great"
====
